---- MODULE Spec2Model ----
(***************************************************************************)
(* A model of the match prediction and staking engine of tennistips:       *)
(*   - the chronological replay of the match history into per-player       *)
(*     states (tips.py build_player_states, features/utils.py              *)
(*     prepare_state_from_history) and the feature lookup on that store;   *)
(*   - generate_tips: odds filter, fatigue adjustment, EV, pick, Kelly     *)
(*     stake, threshold filter and final ordering (tips.py);               *)
(*   - the mirrored training table and the temporal K-fold (cli.py,        *)
(*     model.py);                                                          *)
(*   - ProbModelWrapper.predict_proba (model.py).                          *)
(*                                                                         *)
(* Numbers are fixed point.  Ratings are integers in units of 1e-5 rating  *)
(* points, expected scores are per-mille, K factors are in 1e-2 points,    *)
(* so that a rating update K*(score-expected) is an exact integer.         *)
(* Probabilities in generate_tips are per-mille, odds are in hundredths,   *)
(* and every quotient is kept as an exact fraction <<num, den>>.           *)
(***************************************************************************)
EXTENDS Integers, Sequences, FiniteSets, TLC

VARIABLES
    \* ---- history replay
    rpc,          \* position of the replay: "idle", "loop", "done", "served", "split"
    impl,         \* which replay runs: "tips" (tips.py) or "utils" (features/utils.py)
    formWindow,   \* features.form_window of the run
    hist,         \* the history table, in input row order
    order,        \* row numbers of hist in the order the sort left them
    ri,           \* number of rows of order already applied
    players,      \* the store: player name -> PlayerState
    lastFeat,     \* the last answer of match_features_from_state
    splitPlayers, \* the store of a replay of a prefix followed by the suffix
    \* ---- generate_tips
    tpc,          \* position of generate_tips: "start", "loop", "done", "raised"
    fixtures,     \* the fixtures table, in input row order
    hasOddsCols,  \* whether the table carries both odds_p1 and odds_p2
    hasDateCol,   \* whether the table carries a date column
    hasFatigueCols, \* whether the table carries the ten fatigue columns
    lastHistDate, \* the latest date of the history
    thr,          \* cfg.selection.ev_threshold, in 1e-4
    kept,         \* row numbers of fixtures that passed the odds filter
    ti,           \* number of kept fixtures already processed
    rows,         \* the rows built by the loop, in loop order
    tips,         \* the returned table
    \* ---- training table and temporal K-fold
    cpc,          \* position of train: "feats", "mirrored", "cv", "raised", "done"
    mtype,        \* model.type: "logreg" or "hgb"
    feats,        \* the feature table build_features returns (date order)
    table,        \* the table handed to the trainer
    nSplits,      \* model.n_splits
    fold,         \* number of folds already visited
    curFold,      \* the fold visited last: [tr, va |-> row numbers, fitted |-> BOOLEAN]
    validFolds,   \* valid_folds
    finalModel,   \* what the trainer returns as "model"
    aucs,         \* the folds whose AUC and log-loss were appended to aucs and lls
    cvOut,        \* the metrics of the dict the trainer returns
    \* ---- ProbModelWrapper
    ppc,          \* "start", "returned" or "raised"
    wrapper,      \* the wrapper: kind and payload
    probaOut,     \* the row predict_proba returned
    \* ---- a single call of a function of elo.py or features/fatigue.py
    xpc,          \* "start" or "returned"
    xfn,          \* which function is called
    xargs,        \* its arguments
    xout          \* what it returned

replayVars == <<rpc, impl, formWindow, hist, order, ri, players, lastFeat, splitPlayers>>
tipsVars == <<tpc, fixtures, hasOddsCols, hasDateCol, hasFatigueCols, lastHistDate, thr, kept,
             ti, rows, tips>>
cvVars == <<cpc, mtype, feats, table, nSplits, fold, curFold, validFolds, finalModel,
           aucs, cvOut>>
probaVars == <<ppc, wrapper, probaOut>>
callVars == <<xpc, xfn, xargs, xout>>
vars == <<replayVars, tipsVars, cvVars, probaVars, callVars>>

(***************************************************************************)
(* Bounds of the model.                                                    *)
(***************************************************************************)
MaxHist == 3
MaxFix == 3

(***************************************************************************)
(* Generic helpers.                                                        *)
(***************************************************************************)
Range(f) == {f[x] : x \in DOMAIN f}

SeqsUpTo(S, n) == UNION {[1..k -> S] : k \in 0..n}

\* All orderings (as sequences of row numbers) of the row set R.
Perms(R) == {p \in [1..Cardinality(R) -> R] : Range(p) = R}

Abs(x) == IF x < 0 THEN -x ELSE x

Min(a, b) == IF a <= b THEN a ELSE b

Max(a, b) == IF a >= b THEN a ELSE b

RECURSIVE SumSeq(_)
SumSeq(s) == IF s = <<>> THEN 0 ELSE Head(s) + SumSeq(Tail(s))

\* Python's s[-w:]: the last w entries; s[-0:] is s[0:], the whole list.
LastSlice(s, w) ==
    IF w <= 0 \/ w >= Len(s) THEN s
    ELSE SubSeq(s, Len(s) - w + 1, Len(s))

\* dict.get(k, default)
Get(d, k, default) == IF k \in DOMAIN d THEN d[k] ELSE default

\* d[k] = v on a dict
Put(d, k, v) == [x \in (DOMAIN d) \cup {k} |-> IF x = k THEN v ELSE d[x]]

RECURSIVE GCD(_, _)
GCD(a, b) == IF b = 0 THEN a ELSE GCD(b, a % b)

\* The fraction n/d (d > 0) in lowest terms, as <<num, den>>.
Frac(n, d) ==
    LET g == GCD(Abs(n), d)
    IN  IF g = 0 THEN <<0, 1>> ELSE <<n \div g, d \div g>>

\* The sum of two fractions.
FracSum(a, b) == Frac(a[1] * b[2] + b[1] * a[2], a[2] * b[2])

FracSub(a, b) == Frac(a[1] * b[2] - b[1] * a[2], a[2] * b[2])

(***************************************************************************)
(* Configuration (config.py).  The values are inputs of the program; the   *)
(* model fixes one configuration.                                          *)
(***************************************************************************)
\* elo.start = 1500 rating points, in 1e-5 points
EloStart == 150000000
\* elo.k_base = 20 rating points, in 1e-2 points
KBase == 2000
\* elo.surface_k_boost = 1.05, in percent
SurfaceKBoost == 105
\* features.form_window
FormWindow == 2
\* The window lengths a run may be configured with.
FormWindows == {0, FormWindow}
\* features.h2h_decay = DecayNum / DecayDen
DecayNum == 1
DecayDen == 2

\* One unit of head-to-head score (+1 on a win, -1 on a loss), fixed point.
H2HUnit == 1000 * 1000

(***************************************************************************)
(* tips.py: names, surfaces, player state.                                 *)
(***************************************************************************)
SURFACES == {"Hard", "Clay", "Grass", "Carpet"}

\* Names as they may appear in a table, and what str(s).strip() makes of them.
_norm_name(s) ==
    CASE s = " A" -> "A"
      [] s = "B " -> "B"
      [] OTHER -> s

NoDate == 0

\* A PlayerState whose surface map misses one of the four surfaces.
NewStateTipsNoCarpet(elo_start) ==
    [elo_all |-> elo_start,
     elo_surface |-> [s \in SURFACES \ {"Carpet"} |-> elo_start],
     matches_played |-> 0,
     recent_results |-> <<>>,
     last_match_date |-> NoDate,
     h2h |-> <<>>]

\* tips.py PlayerState as get_state and match_features_from_state build it.
NewStateTips(elo_start) ==
    [elo_all |-> elo_start,
     elo_surface |-> [s \in SURFACES |-> elo_start],
     matches_played |-> 0,
     recent_results |-> <<>>,
     last_match_date |-> NoDate,
     h2h |-> <<>>]

\* 1000 * 1/(1 + 10^(-d/400)) at d = 0, 25, 50, ..., 400 rating points.
ExpectedTable ==
    <<500, 536, 571, 606, 640, 673, 703, 733, 760, 785, 808, 830, 849, 867,
      882, 896, 909>>

ExpectedStep == 25 * 100000

\* The logistic curve for a rating difference d >= 0 (in 1e-5 points), per
\* mille: the table, interpolated linearly, flat beyond its last entry.
ExpectedUp(d) ==
    LET k == d \div ExpectedStep
    IN  IF k + 1 >= Len(ExpectedTable) THEN ExpectedTable[Len(ExpectedTable)]
        ELSE ExpectedTable[k + 1]
             + ((ExpectedTable[k + 2] - ExpectedTable[k + 1]) * (d - k * ExpectedStep))
               \div ExpectedStep

\* _expected(ra, rb) = 1 / (1 + 10 ** (-(ra - rb) / 400)), per mille.
_expected(ra, rb) ==
    IF ra >= rb THEN ExpectedUp(ra - rb) ELSE 1000 - ExpectedUp(rb - ra)

\* An update that moves the first rating only.
UpdateFirstOnly(r_a, r_b, score_a, k) ==
    <<r_a + k * (1000 * score_a - _expected(r_a, r_b)), r_b>>

\* _update_elo: score_a is 0 or 1, k in 1e-2 points; ratings in 1e-5 points.
_update_elo(r_a, r_b, score_a, k) ==
    LET ea == _expected(r_a, r_b)
        eb == 1000 - ea
    IN  <<r_a + k * (1000 * score_a - ea),
          r_b + k * ((1000 - 1000 * score_a) - eb)>>

\* get_state: the store with a fresh state for name when it has none.
get_state(store, name, elo_start) ==
    IF name \in DOMAIN store THEN store
    ELSE Put(store, name, NewStateTips(elo_start))

\* The window update of lines 112-117.
PushResult(rr, score, form_window) ==
    LET a == Append(rr, score)
    IN  IF Len(a) > form_window THEN LastSlice(a, form_window) ELSE a

\* A head-to-head entry whose score grows on a win and on a loss alike.
H2HUnsigned(entry, score, decayNum, decayDen) ==
    <<entry[1] + (IF score = 1 THEN 1 ELSE 0),
      entry[2] + (IF score = 0 THEN 1 ELSE 0),
      (entry[3] * decayNum) \div decayDen + H2HUnit>>

\* One head-to-head entry after a meeting (lines 120-125).
H2HAfter(entry, score, decayNum, decayDen) ==
    <<entry[1] + (IF score = 1 THEN 1 ELSE 0),
      entry[2] + (IF score = 0 THEN 1 ELSE 0),
      (entry[3] * decayNum) \div decayDen + (IF score = 1 THEN H2HUnit ELSE -H2HUnit)>>

\* The body of the replay loop of build_player_states for one row r.
ApplyMatchTips(store, r) ==
    LET p1 == _norm_name(r.player1)
        p2 == _norm_name(r.player2)
        w == _norm_name(r.winner)
        surf == IF r.surface \in SURFACES THEN r.surface ELSE "Hard"
        st == get_state(get_state(store, p1, EloStart), p2, EloStart)
        s1 == st[p1]
        s2 == st[p2]
        k == (KBase * (IF surf \in SURFACES THEN SurfaceKBoost ELSE 100)) \div 100
        score1 == IF p1 = w THEN 1 ELSE 0
        score2 == 1 - score1
        all == _update_elo(s1.elo_all, s2.elo_all, score1, k)
        sf == _update_elo(s1.elo_surface[surf], s2.elo_surface[surf], score1, k)
        n1 == [s1 EXCEPT !.elo_all = all[1],
                         !.elo_surface[surf] = sf[1],
                         !.recent_results = PushResult(@, score1, formWindow),
                         !.h2h = Put(@, p2, H2HAfter(Get(@, p2, <<0, 0, 0>>), score1,
                                                     DecayNum, DecayDen)),
                         !.matches_played = @ + 1,
                         !.last_match_date = r.date]
        n2 == [s2 EXCEPT !.elo_all = all[2],
                         !.elo_surface[surf] = sf[2],
                         !.recent_results = PushResult(@, score2, formWindow),
                         !.h2h = Put(@, p1, H2HAfter(Get(@, p1, <<0, 0, 0>>), score2,
                                                     DecayNum, DecayDen)),
                         !.matches_played = @ + 1,
                         !.last_match_date = r.date]
    IN  [st EXCEPT ![p1] = n1, ![p2] = n2]

\* np.mean of a non-empty 0/1 list, as a fraction.
Mean(rr) == Frac(SumSeq(rr), Len(rr))

\* tips.py match_features_from_state: <<store after the call, feature vector>>.
\* The vector is <<elo_diff, elo_surf_diff, form_diff, h2h_diff>>; the last two
\* are fractions.
FeaturesTips(store, a, b, surface) ==
    LET p1 == _norm_name(a)
        p2 == _norm_name(b)
        surf == IF surface \in SURFACES THEN surface ELSE "Hard"
        st == get_state(get_state(store, p1, EloStart), p2, EloStart)
        s1 == st[p1]
        s2 == st[p2]
        f1 == IF Len(s1.recent_results) > 0 THEN Mean(s1.recent_results) ELSE <<0, 1>>
        f2 == IF Len(s2.recent_results) > 0 THEN Mean(s2.recent_results) ELSE <<0, 1>>
        h1 == Get(s1.h2h, p2, <<0, 0, 0>>)[3]
        h2 == Get(s2.h2h, p1, <<0, 0, 0>>)[3]
    IN  <<st,
          <<s1.elo_all - s2.elo_all,
            Get(s1.elo_surface, surf, EloStart) - Get(s2.elo_surface, surf, EloStart),
            FracSub(f1, f2),
            Frac(h1 - h2, H2HUnit)>>>>

(***************************************************************************)
(* elo.py and features/utils.py: the replay that builds training features. *)
(***************************************************************************)
\* elo.py new_player
new_player(start_elo) ==
    [elo_all |-> start_elo,
     elo_surface |-> <<>>,
     matches_played |-> 0,
     recent_results |-> <<>>,
     last_match_date |-> NoDate,
     h2h |-> <<>>]

\* elo.py get_surface_elo
get_surface_elo(st, surface, start) == Get(st.elo_surface, surface, start)

\* The curve read one table step too far.
ExpectedSkewed(r_a, r_b) == ExpectedUp(Abs(r_a - r_b) + ExpectedStep)

\* elo.py expected_score(r_a, r_b) = 1 / (1 + 10 ** ((r_b - r_a) / 400)), per mille.
expected_score(r_a, r_b) ==
    IF r_a >= r_b THEN ExpectedUp(r_a - r_b) ELSE 1000 - ExpectedUp(r_b - r_a)

\* The experience threshold of k_factor.
NoviceMatches == 30

\* elo.py k_factor, in 1e-2 points (the level multiplies k by 1.0).
k_factor(k_base, matches_played, surface_specific, surface_k_boost) ==
    LET k1 == IF matches_played < NoviceMatches THEN (k_base * 110) \div 100 ELSE k_base
    IN  IF surface_specific THEN (k1 * surface_k_boost) \div 100 ELSE k1

\* features/utils.py update_h2h: the entry is <<wins, losses, weight>>.
update_h2h(h2h_map, opp, won, decayNum, decayDen) ==
    LET e == Get(h2h_map, opp, <<0, 0, 0>>)
    IN  Put(h2h_map, opp,
            <<e[1] + (IF won = 1 THEN 1 ELSE 0),
              e[2] + (IF won = 1 THEN 0 ELSE 1),
              (e[3] * decayNum) \div decayDen + H2HUnit>>)

\* features/utils.py h2h_score = (w - l) / max(1.0, wt), as a fraction.
h2h_score(h2h_map, opp) ==
    LET e == Get(h2h_map, opp, <<0, 0, 0>>)
    IN  IF e[1] + e[2] = 0 THEN <<0, 1>>
        ELSE Frac((e[1] - e[2]) * H2HUnit, Max(H2HUnit, e[3]))

\* The store with new_player(start) for name when it has none.
EnsureUtils(store, name, start) ==
    IF name \in DOMAIN store THEN store ELSE Put(store, name, new_player(start))

\* The update half of the loop body of build_features and of
\* prepare_state_from_history (the same statements in both) for one row r.
ApplyMatchUtils(store, r) ==
    LET p1 == r.player1
        p2 == r.player2
        surf == r.surface
        st == EnsureUtils(EnsureUtils(store, p1, EloStart), p2, EloStart)
        s1 == st[p1]
        s2 == st[p2]
        elo1 == s1.elo_all
        elo2 == s2.elo_all
        elo1_s == get_surface_elo(s1, surf, EloStart)
        elo2_s == get_surface_elo(s2, surf, EloStart)
        s1_score == IF r.winner = p1 THEN 1 ELSE 0
        s2_score == 1 - s1_score
        exp1_all == expected_score(elo1, elo2)
        exp1_s == expected_score(elo1_s, elo2_s)
        k1_all == k_factor(KBase, s1.matches_played, FALSE, SurfaceKBoost)
        k2_all == k_factor(KBase, s2.matches_played, FALSE, SurfaceKBoost)
        k1_s == k_factor(KBase, s1.matches_played, TRUE, SurfaceKBoost)
        k2_s == k_factor(KBase, s2.matches_played, TRUE, SurfaceKBoost)
        n1 == [s1 EXCEPT !.elo_all = elo1 + k1_all * (1000 * s1_score - exp1_all),
                         !.elo_surface = Put(@, surf,
                                             elo1_s + k1_s * (1000 * s1_score - exp1_s)),
                         !.matches_played = @ + 1,
                         !.recent_results = Append(@, s1_score),
                         !.h2h = update_h2h(@, p2, s1_score, DecayNum, DecayDen)]
        n2 == [s2 EXCEPT !.elo_all = elo2 + k2_all * (1000 * s2_score - (1000 - exp1_all)),
                         !.elo_surface = Put(@, surf,
                                             elo2_s + k2_s * (1000 * s2_score
                                                              - (1000 - exp1_s))),
                         !.matches_played = @ + 1,
                         !.recent_results = Append(@, s2_score),
                         !.h2h = update_h2h(@, p1, s2_score, DecayNum, DecayDen)]
    IN  [st EXCEPT ![p1] = n1, ![p2] = n2]

\* The form of one side in features/utils.py: the mean of the window, 0.5 when empty.
FormUtils(rr, form_window) ==
    IF Len(rr) > 0 THEN Mean(LastSlice(rr, form_window)) ELSE <<1, 2>>

\* features/utils.py match_features_from_state: <<store after the call, vector>>.
FeaturesUtils(store, p1, p2, surface) ==
    LET st == EnsureUtils(EnsureUtils(store, p1, EloStart), p2, EloStart)
        s1 == st[p1]
        s2 == st[p2]
    IN  <<st,
          <<s1.elo_all - s2.elo_all,
            get_surface_elo(s1, surface, EloStart) - get_surface_elo(s2, surface, EloStart),
            FracSub(FormUtils(s1.recent_results, formWindow),
                    FormUtils(s2.recent_results, formWindow)),
            FracSub(h2h_score(s1.h2h, p2), h2h_score(s2.h2h, p1))>>>>

(***************************************************************************)
(* The history replay as a state machine.                                  *)
(***************************************************************************)
HistDates == {1, 2}

HistPairs == {<<"A", "B">>}

HistSurfaces == {"Clay", "Mud"}

\* The rows a history may hold: the winner is one of the two players.
MatchRows ==
    {[date |-> d, player1 |-> pr[1], player2 |-> pr[2], winner |-> pr[w], surface |-> sf] :
        d \in HistDates, pr \in HistPairs, w \in {1, 2}, sf \in HistSurfaces}

\* df.dropna(subset=["date"]): the row numbers that keep a date.
DatedRows(h) == {n \in 1..Len(h) : h[n].date # NoDate}

\* df.sort_values("date"): pandas sorts with kind="quicksort", which orders the
\* rows by date and promises nothing about rows of equal date.  Every ordering
\* of the rows R of h with non-decreasing dates is a possible outcome.
SortValuesDate(h, R) ==
    {p \in Perms(R) : \A a, b \in 1..Cardinality(R) : a < b => h[p[a]].date <= h[p[b]].date}

\* The rows the replay of implementation im iterates over, in every possible order.
ReplayOrders(im, h) ==
    IF im = "tips" THEN SortValuesDate(h, DatedRows(h))
    ELSE SortValuesDate(h, 1..Len(h))

ApplyMatch(im, store, r) ==
    IF im = "tips" THEN ApplyMatchTips(store, r) ELSE ApplyMatchUtils(store, r)

\* The store after the loop body ran over the rows o[1], ..., o[Len(o)] of h.
RECURSIVE ReplayRows(_, _, _, _)
ReplayRows(im, store, h, o) ==
    IF o = <<>> THEN store
    ELSE ReplayRows(im, ApplyMatch(im, store, h[Head(o)]), h, Tail(o))

Features(im, store, a, b, surface) ==
    IF im = "tips" THEN FeaturesTips(store, a, b, surface)
    ELSE FeaturesUtils(store, a, b, surface)

\* The pairings and surfaces a feature lookup is asked for.
FeaturePairs == {<<"Y", "Z">>, <<"Z", "Y">>, <<"A", "Z">>, <<"A", "B">>, <<"a", "B ">>}

FeatureSurfaces == {"Clay", "Mud"}

TipsIdle ==
    /\ tpc = "off" /\ fixtures = <<>> /\ hasOddsCols = FALSE /\ thr = 0
    /\ hasDateCol = FALSE /\ hasFatigueCols = FALSE /\ lastHistDate = 0
    /\ kept = <<>> /\ ti = 0
    /\ rows = <<>> /\ tips = <<>>

CvIdle ==
    /\ cpc = "off" /\ mtype = "logreg" /\ feats = <<>> /\ table = <<>>
    /\ nSplits = 0 /\ fold = 0 /\ curFold = <<>> /\ validFolds = 0 /\ finalModel = "none"
    /\ aucs = <<>> /\ cvOut = <<>>

ProbaIdle == ppc = "off" /\ wrapper = <<>> /\ probaOut = <<>>

CallIdle == xpc = "off" /\ xfn = "none" /\ xargs = <<>> /\ xout = <<>>

ReplayIdle ==
    /\ rpc = "off" /\ impl = "none" /\ formWindow = 0 /\ hist = <<>> /\ order = <<>> /\ ri = 0
    /\ players = <<>> /\ lastFeat = <<>> /\ splitPlayers = <<>>

\* build_player_states / prepare_state_from_history: copy, sort, empty store.
SortHistory ==
    /\ rpc = "idle"
    /\ \E o \in ReplayOrders(impl, hist) : order' = o
    /\ rpc' = "loop"
    /\ ri' = 0
    /\ players' = <<>>
    /\ UNCHANGED <<impl, formWindow, hist, lastFeat, splitPlayers>>
    /\ UNCHANGED <<tipsVars, cvVars, probaVars, callVars>>

\* One iteration of the replay loop.
ReplayStep ==
    /\ rpc = "loop"
    /\ ri < Len(order)
    /\ players' = ApplyMatch(impl, players, hist[order[ri + 1]])
    /\ ri' = ri + 1
    /\ UNCHANGED <<rpc, impl, formWindow, hist, order, lastFeat, splitPlayers>>
    /\ UNCHANGED <<tipsVars, cvVars, probaVars, callVars>>

\* return players
ReplayReturn ==
    /\ rpc = "loop"
    /\ ri = Len(order)
    /\ rpc' = "done"
    /\ UNCHANGED <<impl, formWindow, hist, order, ri, players, lastFeat, splitPlayers>>
    /\ UNCHANGED <<tipsVars, cvVars, probaVars, callVars>>

\* match_features_from_state on the replayed store.
MatchFeatures ==
    /\ rpc = "done"
    /\ \E pr \in FeaturePairs, sf \in FeatureSurfaces :
          LET res == Features(impl, players, pr[1], pr[2], sf)
          IN  /\ players' = res[1]
              /\ lastFeat' = [p1 |-> pr[1], p2 |-> pr[2], surface |-> sf,
                              known |-> DOMAIN players, x |-> res[2]]
    /\ rpc' = "served"
    /\ UNCHANGED <<impl, formWindow, hist, order, ri, splitPlayers>>
    /\ UNCHANGED <<tipsVars, cvVars, probaVars, callVars>>

\* The replay of a prefix of the history, then of the remaining suffix onto the
\* store the prefix left: each part goes through the same sort and loop body.
SplitReplay ==
    /\ rpc = "done"
    /\ \E c \in 0..Len(hist) :
          LET P == SubSeq(hist, 1, c)
              S == SubSeq(hist, c + 1, Len(hist))
          IN  \E oP \in ReplayOrders(impl, P), oS \in ReplayOrders(impl, S) :
                  splitPlayers' =
                      [cut |-> c, oP |-> oP, oS |-> oS,
                       store |-> ReplayRows(impl, ReplayRows(impl, <<>>, P, oP), S, oS)]
    /\ rpc' = "split"
    /\ UNCHANGED <<impl, formWindow, hist, order, ri, players, lastFeat>>
    /\ UNCHANGED <<tipsVars, cvVars, probaVars, callVars>>

InitReplay ==
    /\ rpc = "idle"
    /\ impl \in {"tips", "utils"}
    /\ formWindow \in FormWindows
    /\ hist \in SeqsUpTo(MatchRows, MaxHist)
    /\ order = <<>> /\ ri = 0 /\ players = <<>> /\ lastFeat = <<>> /\ splitPlayers = <<>>
    /\ TipsIdle /\ CvIdle /\ ProbaIdle /\ CallIdle

NextReplay ==
    \/ SortHistory
    \/ ReplayStep
    \/ ReplayReturn
    \/ MatchFeatures
    \/ SplitReplay

SpecReplay == InitReplay /\ [][NextReplay]_vars

\* Histories whose player names differ in letter case or surrounding whitespace.
NamePairs == {<<"A", "B">>, <<"a", "B">>, <<" A", "B ">>}

NameRows ==
    {[date |-> 1, player1 |-> pr[1], player2 |-> pr[2], winner |-> pr[w], surface |-> "Clay"] :
        pr \in NamePairs, w \in {1, 2}}

InitNames ==
    /\ rpc = "idle"
    /\ impl \in {"tips", "utils"}
    /\ formWindow \in FormWindows
    /\ hist \in SeqsUpTo(NameRows, MaxHist)
    /\ order = <<>> /\ ri = 0 /\ players = <<>> /\ lastFeat = <<>> /\ splitPlayers = <<>>
    /\ TipsIdle /\ CvIdle /\ ProbaIdle /\ CallIdle

SpecNames == InitNames /\ [][NextReplay]_vars

(***************************************************************************)
(* features/fatigue.py: the fatigue penalty and the probability adjustment.*)
(* Probabilities and penalties are per mille.                              *)
(***************************************************************************)
\* FatigueParams defaults
W_M7 == 15
W_M14 == 10
W_M30 == 5
B2B == 30
W_48H == 15
MIN_P == 50
MAX_P == 950

\* A penalty that applies both flat penalties whenever their signals are set.
PenaltyBothFlats(f) ==
    W_M7 * f.matches_7d
    + W_M14 * Max(0, f.matches_14d - f.matches_7d)
    + W_M30 * Max(0, f.matches_30d - f.matches_14d)
    + (IF f.b2b # 0 THEN B2B ELSE 0)
    + (IF f.rest_48h # 0 THEN W_48H ELSE 0)

\* _penalty(f, params) for one player's signal f.
_penalty(f) ==
    W_M7 * f.matches_7d
    + W_M14 * Max(0, f.matches_14d - f.matches_7d)
    + W_M30 * Max(0, f.matches_30d - f.matches_14d)
    + (IF f.b2b # 0 THEN B2B ELSE 0)
    + (IF f.rest_48h # 0 /\ f.b2b = 0 THEN W_48H ELSE 0)

\* The adjustment without the clamp.
AdjustNoClamp(f1, f2, p1_prob, p2_prob) ==
    LET p1 == p1_prob - _penalty(f1)
        p2 == p2_prob - _penalty(f2)
        s == p1 + p2
    IN  IF s > 0 THEN <<Frac(p1, s), Frac(p2, s)>>
        ELSE <<Frac(p1, 1000), Frac(p2, 1000)>>

\* The adjustment without its last step.
AdjustNoRenorm(f1, f2, p1_prob, p2_prob) ==
    <<Frac(Max(MIN_P, Min(MAX_P, p1_prob - _penalty(f1))), 1000),
      Frac(Max(MIN_P, Min(MAX_P, p2_prob - _penalty(f2))), 1000)>>

\* adjust_probs_for_fixtures_row: the two sides after penalty and clamp, and
\* their sum s; the returned probabilities are c[1]/s and c[2]/s (the clamped
\* values themselves when s is not positive).
adjust_probs_for_fixtures_row(f1, f2, p1_prob, p2_prob) ==
    LET p1 == Max(MIN_P, Min(MAX_P, p1_prob - _penalty(f1)))
        p2 == Max(MIN_P, Min(MAX_P, p2_prob - _penalty(f2)))
        s == p1 + p2
    IN  IF s > 0 THEN <<Frac(p1, s), Frac(p2, s)>>
        ELSE <<Frac(p1, 1000), Frac(p2, 1000)>>

(***************************************************************************)
(* tips.py generate_tips.  Odds are in hundredths; NaN stands for a float  *)
(* that is not a number (a missing or unparseable odd).  EVs and stakes    *)
(* are fractions; a fraction with denominator 0 is a NaN.                  *)
(***************************************************************************)
NaN == 0 - 999999

NaNFrac == <<0, 0>>

IsFinite(x) == x[2] # 0

FracLE(a, b) == a[1] * b[2] <= b[1] * a[2]

FracLT(a, b) == a[1] * b[2] < b[1] * a[2]

\* round(x, 4) of the fraction num/den, in 1e-4: to the nearest, ties to even.
Round4(x) ==
    LET num == 10000 * x[1]
        q == num \div x[2]
        r == num - q * x[2]
    IN  IF 2 * r < x[2] THEN q
        ELSE IF 2 * r > x[2] THEN q + 1
        ELSE IF q % 2 = 0 THEN q ELSE q + 1

\* cfg.selection.kelly_fraction = 0.25, in percent
KellyFraction == 25
\* cfg.selection.kelly_cap = 0.05, in 1e-4
KellyCap == 500

\* _kelly_fraction without the floor at 0.
KellyNoFloor(p, odds) ==
    LET b == odds - 100
    IN  IF odds # NaN /\ b > 0
        THEN Frac(b * p[1] - 100 * (p[2] - p[1]), b * p[2])
        ELSE <<0, 1>>

\* _kelly_fraction(p, odds): p a fraction, odds in hundredths or NaN.
\*   b = odds - 1;  max(0, (b*p - (1-p)) / b) if b > 0 else 0
_kelly_fraction(p, odds) ==
    LET b == odds - 100
    IN  IF odds # NaN /\ b > 0
        THEN LET f == Frac(b * p[1] - 100 * (p[2] - p[1]), b * p[2])
             IN  IF f[1] > 0 THEN f ELSE <<0, 1>>
        ELSE <<0, 1>>

\* ev = p*o - (1 - p) if o == o else nan
EvOf(p, o) ==
    IF o = NaN THEN NaNFrac
    ELSE Frac(p[1] * o - 100 * (p[2] - p[1]), 100 * p[2])

\* The same choice with a strict comparison.
PicksP1Strict(ev1, ev2) ==
    CASE IsFinite(ev1) /\ IsFinite(ev2) -> FracLT(ev2, ev1)
      [] IsFinite(ev1) /\ ~IsFinite(ev2) -> ev1[1] \div ev1[2] > -1000000000
      [] ~IsFinite(ev1) /\ IsFinite(ev2) -> ev2[1] \div ev2[2] <= -1000000000
      [] OTHER -> FALSE

\* (ev1 if np.isfinite(ev1) else -1e9) >= (ev2 if np.isfinite(ev2) else -1e9)
PicksP1(ev1, ev2) ==
    CASE IsFinite(ev1) /\ IsFinite(ev2) -> FracLE(ev2, ev1)
      [] IsFinite(ev1) /\ ~IsFinite(ev2) -> ev1[1] \div ev1[2] >= -1000000000
      [] ~IsFinite(ev1) /\ IsFinite(ev2) -> ev2[1] \div ev2[2] < -1000000000
      [] OTHER -> TRUE

\* min(float(stake), float(cap)) with the cap in 1e-4
CapStake(stake, cap) == IF FracLE(stake, <<cap, 10000>>) THEN stake ELSE Frac(cap, 10000)

\* The signals of a rested and of a tired player.
Rested == [matches_7d |-> 0, matches_14d |-> 0, matches_30d |-> 0, b2b |-> 0, rest_48h |-> 0]

Tired == [matches_7d |-> 1, matches_14d |-> 1, matches_30d |-> 1, b2b |-> 1, rest_48h |-> 1]

\* What model.predict_proba may answer for player1, per mille.
ModelProbs == {0, 500, 550}

OddsPairs == {<<210, 180>>, <<101, 101>>, <<NaN, 180>>, <<100, 210>>, <<101, 10000>>}

FatiguePairs == {<<Rested, Rested>>, <<Tired, Rested>>}

\* Fixture dates are day numbers; NaT is a date that did not parse.
NaT == 0 - 1

\* datetime.now(timezone.utc).date()
Today == 4

FixtureDates == {NaT, 3, 4, 5}

LastHistDates == {2, 3, 4}

\* The combinations of odds, model answer, fatigue and date the model draws from.
FixtureShape(o, q, f, dt) ==
    /\ f[1] = Tired => o = <<210, 180>>
    /\ q = 0 => o = <<101, 10000>>
    /\ o \in {<<NaN, 180>>, <<100, 210>>} => q = 550
    /\ o = <<101, 10000>> => q # 500
    /\ dt # 5 => (o = <<210, 180>> /\ q = 550 /\ f[1] = Rested)

\* A fixture with what the row carries and what the model answers for it.
FixtureRows ==
    {[odds_p1 |-> x[1][1], odds_p2 |-> x[1][2], p |-> x[2],
      f1 |-> x[3][1], f2 |-> x[3][2], date |-> x[4]] :
        x \in {y \in OddsPairs \X ModelProbs \X FatiguePairs \X FixtureDates :
                  FixtureShape(y[1], y[2], y[3], y[4])}}

\* The fixtures of a table that lacks the column col ("odds_p1" or "odds_p2"):
\* r.get(col) is None there; the other odd may be there or not.
FixtureRowsMissing(col) ==
    {[odds_p1 |-> IF col = "odds_p1" THEN NaN ELSE o,
      odds_p2 |-> IF col = "odds_p2" THEN NaN ELSE o,
      p |-> q, f1 |-> Rested, f2 |-> Rested, date |-> 5] :
        o \in {NaN, 100, 210}, q \in {500, 550}}

EvThresholds == {0, 10000}

\* Lines 188-189: the rows that keep odds above 1 when both columns exist.
OddsFilter(fx, both) ==
    SelectSeq([n \in 1..Len(fx) |-> n],
              LAMBDA n : ~both \/ (/\ fx[n].odds_p1 # NaN /\ fx[n].odds_p1 > 100
                                   /\ fx[n].odds_p2 # NaN /\ fx[n].odds_p2 > 100))

\* A date filter that lets the day of the last match of the history through.
DateFilterSameDay(fx, idx, dated, last) ==
    SelectSeq(idx, LAMBDA n : ~dated \/ (/\ fx[n].date # NaT
                                         /\ fx[n].date >= Today
                                         /\ fx[n].date >= last))

\* Lines 191-203: of the rows idx, those whose date parsed, is not before today
\* and is after the last date of the history, when the table has a date column.
DateFilter(fx, idx, dated, last) ==
    SelectSeq(idx, LAMBDA n : ~dated \/ (/\ fx[n].date # NaT
                                         /\ fx[n].date >= Today
                                         /\ fx[n].date > last))

\* Lines 232-283: the output row of fixture number n.
ScoreRow(fx, n) ==
    LET r == fx[n]
        o1 == r.odds_p1
        o2 == r.odds_p2
        adj == adjust_probs_for_fixtures_row(r.f1, r.f2, r.p, 1000 - r.p)
        p1_win == adj[1]
        p2_win == adj[2]
        ev1 == EvOf(p1_win, o1)
        ev2 == EvOf(p2_win, o2)
        first == PicksP1(ev1, ev2)
        best_ev == IF first THEN ev1 ELSE ev2
        kelly == IF first THEN _kelly_fraction(p1_win, o1) ELSE _kelly_fraction(p2_win, o2)
        stake == CapStake(Frac(kelly[1] * KellyFraction, kelly[2] * 100), KellyCap)
    IN  [id |-> n,
         odds_p1 |-> o1,
         odds_p2 |-> o2,
         p1_win |-> p1_win,
         p2_win |-> p2_win,
         ev1 |-> ev1,
         ev2 |-> ev2,
         pick |-> IF first THEN "P1" ELSE "P2",
         best_ev |-> IF IsFinite(best_ev) THEN Round4(best_ev) ELSE NaN,
         stake |-> stake,
         stake_suggest |-> Round4(stake)]

\* Line 289: the rows whose best_ev reaches the threshold or is not finite.
ThresholdFilter(rs, t) == SelectSeq(rs, LAMBDA r : r.best_ev = NaN \/ r.best_ev >= t)

\* Line 292: sort_values("best_ev", ascending=False, na_position="last") with
\* the default kind="quicksort": the rows with a best_ev in descending order,
\* rows of equal best_ev in any order, then the NaN rows in table order.
SortByEvDesc(rs) ==
    LET fin == {n \in 1..Len(rs) : rs[n].best_ev # NaN}
        nan == SelectSeq([n \in 1..Len(rs) |-> n], LAMBDA n : rs[n].best_ev = NaN)
    IN  {[k \in 1..Len(rs) |-> IF k <= Len(o) THEN rs[o[k]] ELSE rs[nan[k - Len(o)]]] :
            o \in {q \in Perms(fin) :
                      \A a, b \in 1..Cardinality(fin) :
                          a < b => rs[q[a]].best_ev >= rs[q[b]].best_ev}}

\* Lines 213-218: a table that lacks a fatigue column goes through
\* add_fatigue_features, whose fx["date"] (fatigue.py line 53) is a KeyError
\* on a table without a date column.
AddFatigueRaises(dated, fatigued) == ~fatigued /\ ~dated

\* generate_tips, lines 187-228: the odds filter, the date filter, the empty
\* table returned at once, the fatigue columns added when they are missing, the
\* store built from the history.  The signals f1, f2 of a fixture are its
\* fatigue columns, given or added.
FilterFixtures ==
    /\ tpc = "start"
    /\ kept' = DateFilter(fixtures, OddsFilter(fixtures, hasOddsCols), hasDateCol, lastHistDate)
    /\ tpc' = IF kept' = <<>> THEN "done"
              ELSE IF AddFatigueRaises(hasDateCol, hasFatigueCols) THEN "raised"
              ELSE "loop"
    /\ UNCHANGED <<fixtures, hasOddsCols, hasDateCol, hasFatigueCols, lastHistDate, thr, ti, rows, tips>>
    /\ UNCHANGED <<replayVars, cvVars, probaVars, callVars>>

\* One iteration of the loop over the fixtures, lines 231-283.
ScoreFixture ==
    /\ tpc = "loop"
    /\ ti < Len(kept)
    /\ rows' = Append(rows, ScoreRow(fixtures, kept[ti + 1]))
    /\ ti' = ti + 1
    /\ UNCHANGED <<tpc, fixtures, hasOddsCols, hasDateCol, hasFatigueCols, lastHistDate, thr, kept, tips>>
    /\ UNCHANGED <<replayVars, cvVars, probaVars, callVars>>

\* Lines 285-293: the threshold filter, the sort, the return.
FinishTips ==
    /\ tpc = "loop"
    /\ ti = Len(kept)
    /\ tips' \in SortByEvDesc(ThresholdFilter(rows, thr))
    /\ tpc' = "done"
    /\ UNCHANGED <<fixtures, hasOddsCols, hasDateCol, hasFatigueCols, lastHistDate, thr, kept, ti, rows>>
    /\ UNCHANGED <<replayVars, cvVars, probaVars, callVars>>

InitTips ==
    /\ tpc = "start"
    /\ hasOddsCols \in BOOLEAN
    /\ hasDateCol \in BOOLEAN
    /\ hasFatigueCols \in BOOLEAN
    /\ lastHistDate \in LastHistDates
    /\ fixtures \in IF hasOddsCols THEN SeqsUpTo(FixtureRows, MaxFix)
                    ELSE UNION {SeqsUpTo(FixtureRowsMissing(c), MaxFix) :
                                  c \in {"odds_p1", "odds_p2"}}
    \* without a date column the dates are not read
    /\ ~hasDateCol => (lastHistDate = 3 /\ \A n \in 1..Len(fixtures) : fixtures[n].date = 5)
    /\ thr \in EvThresholds
    /\ kept = <<>> /\ ti = 0 /\ rows = <<>> /\ tips = <<>>
    /\ ReplayIdle /\ CvIdle /\ ProbaIdle /\ CallIdle

NextTips ==
    \/ FilterFixtures
    \/ ScoreFixture
    \/ FinishTips

SpecTips == InitTips /\ [][NextTips]_vars

(***************************************************************************)
(* cli.py train / eval and model.py train_logreg_ts_cv, train_hgb_ts_cv:   *)
(* the feature table of build_features (one sample per match, in date      *)
(* order), its mirroring, and the loop over the folds of                   *)
(* TimeSeriesSplit(n_splits).split(X).  A sample is [date, y, x] with x the *)
(* four differential columns.  Of fitting and scoring a fold the model     *)
(* keeps that they took place, and that the 3-fold calibrator of the       *)
(* logistic trainer refuses labels with fewer than 3 examples of a class.  *)
(***************************************************************************)
MaxFeats == 4

FeatDates == {1, 2, 3}

FeatVectors == {<<0, 0, 0, 0>>, <<3, 0 - 2, 1, 0 - 1>>}

NSplits == {1, 2, 3, 5}

\* The tables build_features can return: sorted by date (utils.py line 10).
FeatTables ==
    {t \in SeqsUpTo([date : FeatDates, y : {0, 1}, x : FeatVectors], MaxFeats) :
        /\ Len(t) >= 1
        /\ \A a, b \in 1..Len(t) : a < b => t[a].date <= t[b].date}

\* A mirroring that negates the columns and keeps the label.
MirrorKeepLabel(t) ==
    t \o [n \in 1..Len(t) |->
            [date |-> t[n].date, y |-> t[n].y, x |-> [c \in 1..4 |-> 0 - t[n].x[c]]]]

\* cli.py _mirror_features: a copy with y -> 1 - y and the four differential
\* columns negated, concatenated after the table itself.
_mirror_features(t) ==
    t \o [n \in 1..Len(t) |->
            [date |-> t[n].date,
             y |-> 1 - t[n].y,
             x |-> [c \in 1..4 |-> 0 - t[n].x[c]]]]

\* TimeSeriesSplit(n_splits=k) refuses k < 2, and split(X) refuses k + 1 > n.
SplitRaises(n, k) == k < 2 \/ k + 1 > n

\* The folds of TimeSeriesSplit(n_splits=k).split(X) for n samples, in order:
\* test_size = n // (k+1); fold i tests the test_size rows that start
\* (k - i + 1) * test_size rows before the end and trains on all rows before.
TimeSeriesSplit(n, k) ==
    LET test_size == n \div (k + 1)
    IN  [i \in 1..k |->
            LET test_start == n - (k - i + 1) * test_size
            IN  [tr |-> 1..test_start,
                 va |-> (test_start + 1)..(test_start + test_size)]]

\* np.unique(y[idx])
Classes(t, idx) == {t[n].y : n \in idx}

\* model.py line 222-223
TailCap == 50000
TailMin == 1000

\* train_hgb_ts_cv._calibrate_on_tail: the window it calibrates on, 0 for None.
RECURSIVE TailWindow(_, _)
TailWindow(t, win) ==
    IF win < TailMin THEN 0
    ELSE IF Cardinality(Classes(t, (Len(t) - win + 1)..Len(t))) = 2 THEN win
    ELSE TailWindow(t, win \div 2)

_calibrate_on_tail(t) == TailWindow(t, Min(Len(t), TailCap))

\* The "model" the trainer returns after the final fit on the whole table.
FinalModel(mt, t) ==
    IF mt = "logreg"
    THEN IF Cardinality(Classes(t, 1..Len(t))) < 2
         THEN "LogisticRegression" ELSE "CalibratedClassifierCV"
    ELSE IF _calibrate_on_tail(t) # 0
         THEN "CalibratedHGB" ELSE "HistGradientBoostingClassifier"

\* cli.py line 55 / 157: feats = _mirror_features(feats)
MirrorFeatures ==
    /\ cpc = "feats"
    /\ table' = _mirror_features(feats)
    /\ cpc' = "mirrored"
    /\ UNCHANGED <<mtype, feats, nSplits, fold, curFold, validFolds, finalModel, aucs, cvOut>>
    /\ UNCHANGED <<replayVars, tipsVars, probaVars, callVars>>

\* model.py lines 125-129 / 181-185: the splitter is built and asked for its
\* first fold.
StartCV ==
    /\ cpc = "mirrored"
    /\ cpc' = IF SplitRaises(Len(table), nSplits) THEN "raised" ELSE "cv"
    /\ UNCHANGED <<mtype, feats, table, nSplits, fold, curFold, validFolds, finalModel, aucs, cvOut>>
    /\ UNCHANGED <<replayVars, tipsVars, probaVars, callVars>>

\* The number of folds of the calibrator's internal cross-validation (cv=3).
CalibFolds == 3

\* CalibratedClassifierCV(base, cv=3).fit(X[idx], y[idx]) refuses labels in
\* which a class has fewer examples than folds.
CalibratedFitRaises(t, idx) ==
    \E c \in Classes(t, idx) : Cardinality({n \in idx : t[n].y = c}) < CalibFolds

\* np.mean over the appended fold metrics, float("nan") without any; the mean
\* is kept as the list of folds it is taken over.
MeanOrNaN(available, folds) == IF available THEN <<"mean", folds>> ELSE <<"nan">>

\* model.py lines 129-143 / 185-210: one fold; it is skipped unless two classes
\* are on both sides, otherwise fitted on tr and scored on va.
VisitFold ==
    /\ cpc = "cv"
    /\ fold < nSplits
    /\ LET f == TimeSeriesSplit(Len(table), nSplits)[fold + 1]
           valid == /\ Cardinality(Classes(table, f.tr)) = 2
                    /\ Cardinality(Classes(table, f.va)) = 2
           raises == valid /\ mtype = "logreg" /\ CalibratedFitRaises(table, f.tr)
           fitted == valid /\ ~raises
       IN  /\ curFold' = [tr |-> f.tr, va |-> f.va, fitted |-> fitted]
           /\ validFolds' = IF fitted THEN validFolds + 1 ELSE validFolds
           /\ aucs' = IF fitted THEN Append(aucs, fold + 1) ELSE aucs
           /\ cpc' = IF raises THEN "raised" ELSE cpc
    /\ fold' = fold + 1
    /\ UNCHANGED <<mtype, feats, table, nSplits, finalModel, cvOut>>
    /\ UNCHANGED <<replayVars, tipsVars, probaVars, callVars>>

\* model.py lines 145-163 / 212-250: the final fit and the return.
FinalFit ==
    /\ cpc = "cv"
    /\ fold = nSplits
    /\ LET model == FinalModel(mtype, table)
           raises == /\ model = "CalibratedClassifierCV"
                     /\ CalibratedFitRaises(table, 1..Len(table))
       IN  IF raises
           THEN /\ cpc' = "raised"
                /\ UNCHANGED <<finalModel, cvOut>>
           ELSE /\ cpc' = "done"
                /\ finalModel' = model
                /\ cvOut' = [cv_auc |-> MeanOrNaN(IF mtype = "logreg" THEN validFolds > 0
                                                  ELSE Len(aucs) > 0, aucs),
                             cv_logloss |-> MeanOrNaN(IF mtype = "logreg" THEN validFolds > 0
                                                      ELSE Len(aucs) > 0, aucs),
                             n_valid_folds |-> validFolds]
    /\ UNCHANGED <<mtype, feats, table, nSplits, fold, curFold, validFolds, aucs>>
    /\ UNCHANGED <<replayVars, tipsVars, probaVars, callVars>>

InitCV ==
    /\ cpc = "feats"
    /\ mtype \in {"logreg", "hgb"}
    /\ feats \in FeatTables
    /\ nSplits \in NSplits
    /\ table = <<>> /\ fold = 0 /\ curFold = <<>> /\ validFolds = 0
    /\ finalModel = "none"
    /\ aucs = <<>> /\ cvOut = <<>>
    /\ ReplayIdle /\ TipsIdle /\ ProbaIdle /\ CallIdle

NextCV ==
    \/ MirrorFeatures
    \/ StartCV
    \/ VisitFold
    \/ FinalFit

SpecCV == InitCV /\ [][NextCV]_vars

(***************************************************************************)
(* model.py ProbModelWrapper.predict_proba, for one row of X.              *)
(* Probabilities are integers in units of 1e-8.  An underlying estimator   *)
(* is modelled by what it answers for the row.                             *)
(***************************************************************************)
One == 100 * 1000 * 1000

\* 1e-6
Eps == 100

\* What an underlying estimator may answer as the probability of class 1.
RawOutputs == {0, 50, 100, One \div 2, One - 100, One - 50, One}

\* ensemble weights w, in halves: 0, 0.5, 1, 2, -1
Weights == {0, 1, 2, 4, 0 - 2}

\* The isotonic maps of an (base, iso) pair.
IsoMaps == {"id", "step"}

\* iso.predict(p_raw)
IsoPredict(iso, p_raw) ==
    IF iso = "id" THEN p_raw ELSE IF 2 * p_raw < One THEN 0 ELSE One

\* np.clip without its effect.
ClipOff(x, lo, hi) == x

\* np.clip(x, lo, hi)
clip(x, lo, hi) == IF x < lo THEN lo ELSE IF x > hi THEN hi ELSE x

\* Lines 50-51: p1 = np.clip(p1, 1e-6, 1 - 1e-6); column_stack([1 - p1, p1])
ClipAndStack(p1) ==
    LET c == clip(p1, Eps, One - Eps)
    IN  [raised |-> FALSE, row |-> <<One - c, c>>]

ValueError == [raised |-> TRUE, row |-> <<>>]

LogregWrappers == {[kind |-> "logreg", out |-> r] : r \in RawOutputs}

\* kind "hgb": a (base, iso) tuple, or one object whose predict_proba answers
\* a row of two columns or a single column.
HgbWrappers ==
    {[kind |-> "hgb", form |-> "tuple", base |-> b, iso |-> i] :
        b \in RawOutputs, i \in IsoMaps}
    \cup {[kind |-> "hgb", form |-> "object", proba |-> <<One - r, r>>] : r \in RawOutputs}
    \cup {[kind |-> "hgb", form |-> "object", proba |-> <<r>>] : r \in RawOutputs}

UnknownWrappers == {[kind |-> "svm"]}

EnsembleWrappers ==
    {[kind |-> "ensemble", w |-> w, lr |-> a, hgb |-> b] :
        w \in Weights,
        a \in LogregWrappers \cup UnknownWrappers,
        b \in HgbWrappers \cup UnknownWrappers}

Wrappers == LogregWrappers \cup HgbWrappers \cup EnsembleWrappers \cup UnknownWrappers

\* ProbModelWrapper.predict_proba: the returned row, or the ValueError raised.
RECURSIVE predict_proba(_)
predict_proba(m) ==
    CASE m.kind = "logreg" -> ClipAndStack(m.out)
      [] m.kind = "hgb" ->
            IF m.form = "tuple"
            THEN ClipAndStack(IsoPredict(m.iso, m.base))
            ELSE ClipAndStack(IF Len(m.proba) = 2 THEN m.proba[2] ELSE m.proba[1])
      [] m.kind = "ensemble" ->
            LET p_lr == predict_proba(m.lr)
                p_hg == predict_proba(m.hgb)
            IN  IF p_lr.raised \/ p_hg.raised THEN ValueError
                ELSE ClipAndStack((m.w * p_lr.row[2] + (2 - m.w) * p_hg.row[2]) \div 2)
      [] OTHER -> ValueError

\* predict_proba returns a row.
PredictProba ==
    /\ ppc = "start"
    /\ ~predict_proba(wrapper).raised
    /\ probaOut' = predict_proba(wrapper).row
    /\ ppc' = "returned"
    /\ UNCHANGED wrapper
    /\ UNCHANGED <<replayVars, tipsVars, cvVars, callVars>>

\* predict_proba raises.
PredictProbaRaises ==
    /\ ppc = "start"
    /\ predict_proba(wrapper).raised
    /\ ppc' = "raised"
    /\ UNCHANGED <<wrapper, probaOut>>
    /\ UNCHANGED <<replayVars, tipsVars, cvVars, callVars>>

InitProba ==
    /\ ppc = "start"
    /\ wrapper \in Wrappers
    /\ probaOut = <<>>
    /\ ReplayIdle /\ TipsIdle /\ CvIdle /\ CallIdle

NextProba ==
    \/ PredictProba
    \/ PredictProbaRaises

SpecProba == InitProba /\ [][NextProba]_vars

(***************************************************************************)
(* Single calls of expected_score / _expected (elo.py, tips.py), of         *)
(* _player_fatigue followed by _penalty, and of                            *)
(* adjust_probs_for_fixtures_row (features/fatigue.py).  Dates are day      *)
(* numbers.                                                                *)
(***************************************************************************)
MaxPlayed == 2

\* Rating levels, in 1e-5 points: 0, 1000, 1500, 1525, 1600, 1987.5 and 3000.
RatingLevels == {100000 * r : r \in {0, 1000, 1500, 1525, 1600, 3000}} \cup {198750000}

\* The reference date of a fixture and the days a player's matches were on.
RefDate == 40

PlayedDays == {9, 10, 25, 26, 32, 33, 37, 38, 39, 40, 41}

\* _count_matches: the matches on or after ref_date - days.
_count_matches(dates, ref_date, days) ==
    Cardinality({n \in 1..Len(dates) : dates[n] >= ref_date - days})

\* _player_fatigue for the dates of the player's slice of the history.
_player_fatigue(dates, ref_date) ==
    IF dates = <<>>
    THEN [matches_7d |-> 0, matches_14d |-> 0, matches_30d |-> 0,
          days_since_last |-> 9999, b2b |-> 0, rest_48h |-> 0]
    ELSE LET last_dt == CHOOSE d \in Range(dates) : \A e \in Range(dates) : e <= d
             days_since == ref_date - last_dt
         IN  [matches_7d |-> _count_matches(dates, ref_date, 7),
              matches_14d |-> _count_matches(dates, ref_date, 14),
              matches_30d |-> _count_matches(dates, ref_date, 30),
              days_since_last |-> days_since,
              b2b |-> IF days_since <= 1 THEN 1 ELSE 0,
              rest_48h |-> IF days_since <= 2 THEN 1 ELSE 0]

\* A player with a heavy month and a short rest.
Heavy == [matches_7d |-> 3, matches_14d |-> 5, matches_30d |-> 9, b2b |-> 0, rest_48h |-> 1]

FatigueSignals == {Rested, Tired, Heavy}

\* Probabilities handed to the adjustment, per mille.
ProbGrid == {0, 40, 50, 500, 550, 950, 1000}

\* expected_score(r_a, r_b) and _expected(ra, rb) on the same pair.
CallExpectedScore ==
    /\ xpc = "start" /\ xfn = "expected_score"
    /\ xout' = <<expected_score(xargs[1], xargs[2]), _expected(xargs[1], xargs[2])>>
    /\ xpc' = "returned"
    /\ UNCHANGED <<xfn, xargs>>
    /\ UNCHANGED <<replayVars, tipsVars, cvVars, probaVars>>

\* _penalty(_player_fatigue(history, player, ref_date), FatigueParams())
CallPlayerFatigue ==
    /\ xpc = "start" /\ xfn = "_player_fatigue"
    /\ LET f == _player_fatigue(xargs.dates, xargs.ref_date)
       IN  xout' = [f |-> f, pen |-> _penalty(f)]
    /\ xpc' = "returned"
    /\ UNCHANGED <<xfn, xargs>>
    /\ UNCHANGED <<replayVars, tipsVars, cvVars, probaVars>>

\* adjust_probs_for_fixtures_row(row, p1_prob, p2_prob)
CallAdjustProbs ==
    /\ xpc = "start" /\ xfn = "adjust_probs_for_fixtures_row"
    /\ xout' = adjust_probs_for_fixtures_row(xargs.f1, xargs.f2, xargs.p1_prob, xargs.p2_prob)
    /\ xpc' = "returned"
    /\ UNCHANGED <<xfn, xargs>>
    /\ UNCHANGED <<replayVars, tipsVars, cvVars, probaVars>>

InitCalls ==
    /\ xpc = "start"
    /\ xfn \in {"expected_score", "_player_fatigue", "adjust_probs_for_fixtures_row"}
    /\ xargs \in CASE xfn = "expected_score" -> RatingLevels \X RatingLevels
                   [] xfn = "_player_fatigue" ->
                        [dates : SeqsUpTo(PlayedDays, MaxPlayed), ref_date : {RefDate}]
                   [] OTHER ->
                        [f1 : FatigueSignals, f2 : FatigueSignals,
                         p1_prob : ProbGrid, p2_prob : ProbGrid]
    /\ xout = <<>>
    /\ ReplayIdle /\ TipsIdle /\ CvIdle /\ ProbaIdle

NextCalls ==
    \/ CallExpectedScore
    \/ CallPlayerFatigue
    \/ CallAdjustProbs

SpecCalls == InitCalls /\ [][NextCalls]_vars

(***************************************************************************)
(* Claims about the replay and the feature lookup.                         *)
(***************************************************************************)
\* The rows of h are in chronological (non-decreasing date) order.
IsChrono(h) == \A a, b \in 1..Len(h) : a < b => h[a].date <= h[b].date

\* o lists its rows by date, rows of equal date in input order.
IsStableOrder(h, o) ==
    \A a, b \in 1..Len(o) :
        a < b => \/ h[o[a]].date < h[o[b]].date
                 \/ (h[o[a]].date = h[o[b]].date /\ o[a] < o[b])

\* C2: for any input row order, the matches applied so far were applied in the
\* order of a stable ascending sort on date: dates never decrease, and matches
\* of the same date are applied in their input order.
C2_AppliedInStableDateOrder ==
    rpc \in {"loop", "done"} =>
        LET stable == CHOOSE o \in ReplayOrders(impl, hist) : IsStableOrder(hist, o)
        IN  \A n \in 1..ri : hist[order[n]] = hist[stable[n]]

\* The part of C2 the code does keep: the dates of the applied matches never
\* decrease.
C2_AppliedDatesNonDecreasing ==
    \A a, b \in 1..ri : a < b => hist[order[a]].date <= hist[order[b]].date

\* C3: for a chronologically ordered history and any split of it, the store
\* after the replay of the whole history equals the store after the replay of
\* the prefix followed by the suffix.
C3_SplitReplayEqualsWhole ==
    (rpc = "split" /\ impl = "tips" /\ IsChrono(hist)) => splitPlayers.store = players

\* What C3 comes to when every sort involved happens to keep input order on ties.
C3_SplitEqualsWholeWhenStable ==
    (/\ rpc = "split"
     /\ IsChrono(hist)
     /\ IsStableOrder(hist, order)
     /\ IsStableOrder(SubSeq(hist, 1, splitPlayers.cut), splitPlayers.oP)
     /\ IsStableOrder(SubSeq(hist, splitPlayers.cut + 1, Len(hist)), splitPlayers.oS))
        => splitPlayers.store = players

\* The store key of a name in the running implementation.
KeyOf(name) == IF impl = "tips" THEN _norm_name(name) ELSE name

ZeroFeatures == <<0, 0, <<0, 1>>, <<0, 1>>>>

\* The state of name in the store is the one of a player without history.
IsFreshState(im, store, name) ==
    /\ name \in DOMAIN store
    /\ store[name].elo_all = EloStart
    /\ \A s \in SURFACES \cup FeatureSurfaces :
          Get(store[name].elo_surface, s, EloStart) = EloStart
    /\ im = "tips" => DOMAIN store[name].elo_surface = SURFACES
    /\ store[name].recent_results = <<>>
    /\ store[name].h2h = <<>>

\* The lookup just served was for two players the store did not hold.
ServedFreshPair ==
    /\ rpc = "served"
    /\ KeyOf(lastFeat.p1) \notin lastFeat.known
    /\ KeyOf(lastFeat.p2) \notin lastFeat.known

\* C10: for two players without history and any surface, the feature vector is
\* exactly [0, 0, 0, 0], and the two states the lookup created hold the starting
\* rating on every surface, an empty results window and no head-to-head entry.
C10_FreshPairFeaturesZero ==
    ServedFreshPair =>
        /\ lastFeat.x = ZeroFeatures
        /\ IsFreshState(impl, players, KeyOf(lastFeat.p1))
        /\ IsFreshState(impl, players, KeyOf(lastFeat.p2))

C10_Witness ==
    /\ ServedFreshPair
    /\ impl = "tips"
    /\ lastFeat.known # {}
    /\ lastFeat.surface \notin SURFACES


(***************************************************************************)
(* Claims about generate_tips.                                             *)
(***************************************************************************)
\* The probability and the odd of the side a row picked.
PickedProb(r) == IF r.pick = "P1" THEN r.p1_win ELSE r.p2_win

PickedOdds(r) == IF r.pick = "P1" THEN r.odds_p1 ELSE r.odds_p2

\* kelly_fraction * max(0, (b*p - (1-p)) / b) with b = o - 1, for an odd above 1.
UncappedStake(p, o) ==
    LET num == KellyFraction * ((o - 100) * p[1] - 100 * (p[2] - p[1]))
        den == 100 * (o - 100) * p[2]
    IN  IF num > 0 THEN Frac(num, den) ELSE <<0, 1>>

\* C4: for every row computed, whatever the probability and the odds, the stake
\* is at least 0 and at most kelly_cap, and for an odd above 1 it is
\* min(kelly_cap, kelly_fraction * max(0, (b*p - (1-p)) / b)); the rounded
\* stake_suggest of the row lies in the same band.
C4_StakeWithinCap ==
    \A n \in 1..Len(rows) :
        LET r == rows[n]
            o == PickedOdds(r)
        IN  /\ FracLE(<<0, 1>>, r.stake)
            /\ FracLE(r.stake, <<KellyCap, 10000>>)
            /\ 0 <= r.stake_suggest /\ r.stake_suggest <= KellyCap
            /\ (o # NaN /\ o > 100) =>
                  LET u == UncappedStake(PickedProb(r), o)
                  IN  r.stake = IF FracLE(u, <<KellyCap, 10000>>) THEN u
                                ELSE Frac(KellyCap, 10000)

\* A run in which one stake was cut to the cap, one lies strictly inside the
\* band and one was floored at 0 for a side whose Kelly fraction is negative.
C4_Witness ==
    /\ \E n \in 1..Len(rows) :
          /\ rows[n].stake_suggest = KellyCap
          /\ ~FracLE(UncappedStake(PickedProb(rows[n]), PickedOdds(rows[n])),
                     <<KellyCap, 10000>>)
    /\ \E n \in 1..Len(rows) :
          0 < rows[n].stake_suggest /\ rows[n].stake_suggest < KellyCap
    /\ \E n \in 1..Len(rows) :
          /\ rows[n].stake = <<0, 1>>
          /\ KellyNoFloor(PickedProb(rows[n]), PickedOdds(rows[n]))[1] < 0

\* p*o - (1 - p) for a probability p (a fraction) and an odd o in hundredths.
ExpectedValue(p, o) == Frac(p[1] * o - 100 * (p[2] - p[1]), 100 * p[2])

\* C5: for every row computed, the probabilities are the fatigue-adjusted ones,
\* EV1 = p1*o1 - (1-p1) and EV2 = p2*o2 - (1-p2); with both EVs numbers the
\* pick is P2 exactly when EV2 is strictly higher than EV1 (a tie picks P1);
\* best_ev and the stake are those of the side picked.
C5_PickByHigherEv ==
    \A n \in 1..Len(rows) :
        LET r == rows[n]
            f == fixtures[r.id]
            adj == adjust_probs_for_fixtures_row(f.f1, f.f2, f.p, 1000 - f.p)
        IN  /\ r.p1_win = adj[1] /\ r.p2_win = adj[2]
            /\ r.odds_p1 # NaN => r.ev1 = ExpectedValue(adj[1], r.odds_p1)
            /\ r.odds_p2 # NaN => r.ev2 = ExpectedValue(adj[2], r.odds_p2)
            /\ (r.odds_p1 # NaN /\ r.odds_p2 # NaN) =>
                  /\ r.pick = "P2" <=> FracLT(r.ev1, r.ev2)
                  /\ r.pick = "P1" <=> FracLE(r.ev2, r.ev1)
                  /\ r.best_ev = Round4(IF r.pick = "P1" THEN r.ev1 ELSE r.ev2)
                  /\ (PickedOdds(r) > 100) =>
                        r.stake = CapStake(UncappedStake(PickedProb(r), PickedOdds(r)),
                                           KellyCap)

\* A run with an exact tie of the two EVs (picked P1), a row that picked P2 on a
\* strictly higher EV2, and a row whose probabilities the fatigue moved.
C5_Witness ==
    /\ \E n \in 1..Len(rows) :
          /\ IsFinite(rows[n].ev1) /\ rows[n].ev1 = rows[n].ev2
          /\ rows[n].pick = "P1"
    /\ \E n \in 1..Len(rows) :
          /\ IsFinite(rows[n].ev1) /\ IsFinite(rows[n].ev2)
          /\ FracLT(rows[n].ev1, rows[n].ev2)
          /\ rows[n].pick = "P2"
    /\ \E n \in 1..Len(rows) :
          /\ IsFinite(rows[n].ev1) /\ IsFinite(rows[n].ev2)
          /\ rows[n].p1_win # Frac(fixtures[rows[n].id].p, 1000)

\* C6: every row of the returned table has a best_ev that is a number and is
\* at least ev_threshold; a row whose best EV is NaN is never returned.
C6_EmittedReachThreshold ==
    tpc = "done" =>
        \A n \in 1..Len(tips) : tips[n].best_ev # NaN /\ tips[n].best_ev >= thr

\* The part of C6 the code does keep: a returned best_ev that is a number
\* reaches the threshold.
C6_FiniteEmittedReachThreshold ==
    tpc = "done" =>
        \A n \in 1..Len(tips) : tips[n].best_ev # NaN => tips[n].best_ev >= thr

\* The odd is a number above 1.
ValidOdd(o) == o # NaN /\ o > 100

\* C7: a fixture whose odds_p1 or odds_p2 is missing, not a number or at most 1
\* never has a row in the returned table, whether or not the fixtures table
\* has the odds columns.
C7_InvalidOddsNeverEmitted ==
    tpc = "done" =>
        \A n \in 1..Len(tips) :
            /\ ValidOdd(fixtures[tips[n].id].odds_p1)
            /\ ValidOdd(fixtures[tips[n].id].odds_p2)

\* The part of C7 the code does keep: with both odds columns in the table, no
\* fixture with an invalid odd is scored or returned.
C7_InvalidOddsDroppedWithColumns ==
    hasOddsCols =>
        /\ \A n \in 1..Len(rows) :
              ValidOdd(fixtures[rows[n].id].odds_p1) /\ ValidOdd(fixtures[rows[n].id].odds_p2)
        /\ \A n \in 1..Len(tips) :
              ValidOdd(fixtures[tips[n].id].odds_p1) /\ ValidOdd(fixtures[tips[n].id].odds_p2)

\* C8: the returned rows are in order of non-increasing best_ev, and rows of
\* equal best_ev keep the order in which their fixtures were processed.
C8_SortedByEvStable ==
    tpc = "done" =>
        \A a, b \in 1..Len(tips) :
            (a < b /\ tips[a].best_ev # NaN /\ tips[b].best_ev # NaN) =>
                \/ tips[a].best_ev > tips[b].best_ev
                \/ (tips[a].best_ev = tips[b].best_ev /\ tips[a].id < tips[b].id)

\* The part of C8 the code does keep: best_ev never increases down the table.
C8_SortedByEvDesc ==
    tpc = "done" =>
        \A a, b \in 1..Len(tips) :
            (a < b /\ tips[a].best_ev # NaN /\ tips[b].best_ev # NaN) =>
                tips[a].best_ev >= tips[b].best_ev


(***************************************************************************)
(* Claims about the temporal K-fold.                                       *)
(***************************************************************************)
\* C1: for every cross-validation fold the trainer fits and scores, no
\* validation sample comes from a match dated earlier than a match whose
\* sample, original or mirrored, is in the training set of that fold.
C1_ValidationNeverPrecedesTraining ==
    (cpc = "cv" /\ fold > 0 /\ curFold.fitted) =>
        \A v \in curFold.va : \A t \in curFold.tr : table[t].date <= table[v].date

\* The same for the folds the loop skips as well.
C1_AnyFoldValidationNeverPrecedesTraining ==
    (cpc = "cv" /\ fold > 0) =>
        \A v \in curFold.va : \A t \in curFold.tr : table[t].date <= table[v].date

\* The part of C1 the code does keep: in every fold the validation rows come
\* after the training rows in the table handed to the trainer.
C1_ValidationRowsFollowTrainingRows ==
    (cpc = "cv" /\ fold > 0) =>
        /\ curFold.va # {}
        /\ \A v \in curFold.va : \A t \in curFold.tr : t < v

(***************************************************************************)
(* Claims about ProbModelWrapper.predict_proba.                            *)
(***************************************************************************)
\* The kind of the wrapper is one predict_proba knows.
KnownKind(m) == m.kind \in {"logreg", "hgb", "ensemble"}

\* C9: for every model kind and any answer of the underlying estimators,
\* 0 and 1 included, the row returned is [1-p, p] with 1e-6 <= p <= 1-1e-6, so
\* that neither column is 0 or 1 and the row sums to 1; with an unknown kind
\* the call raises and returns nothing.
C9_ProbaClipped ==
    /\ ppc = "returned" =>
          /\ Len(probaOut) = 2
          /\ probaOut[1] = One - probaOut[2]
          /\ Eps <= probaOut[2] /\ probaOut[2] <= One - Eps
          /\ probaOut[1] \notin {0, One} /\ probaOut[2] \notin {0, One}
          /\ probaOut[1] + probaOut[2] = One
    /\ ~KnownKind(wrapper) => (ppc # "returned" /\ probaOut = <<>>)
    /\ (ppc = "raised" /\ KnownKind(wrapper)) =>
          /\ wrapper.kind = "ensemble"
          /\ ~KnownKind(wrapper.lr) \/ ~KnownKind(wrapper.hgb)

\* An ensemble whose weighted mean left [0, 1] and came back as the lower bound.
C9_Witness ==
    /\ ppc = "returned"
    /\ wrapper.kind = "ensemble"
    /\ wrapper.w * predict_proba(wrapper.lr).row[2]
          + (2 - wrapper.w) * predict_proba(wrapper.hgb).row[2] < 0
    /\ probaOut = <<One - Eps, Eps>>


\* The fixture is one generate_tips has no reason to drop: its odds are valid
\* and its date, when the table has dates, is today or later and after the history.
GoodFixture(f) ==
    /\ ValidOdd(f.odds_p1) /\ ValidOdd(f.odds_p2)
    /\ hasDateCol => (f.date # NaT /\ f.date >= Today /\ f.date > lastHistDate)

\* C11: generate_tips never raises because of a bad fixture in the batch - a
\* date that is missing or does not parse, a table without a date column,
\* missing odds: whatever the batch, the call returns, and every good fixture
\* whose best EV reaches the threshold has its row in the returned table.
C11_NeverRaisesPerFixture ==
    /\ tpc # "raised"
    /\ tpc = "done" =>
          \A n \in 1..Len(fixtures) :
              GoodFixture(fixtures[n]) =>
                  (ScoreRow(fixtures, n).best_ev >= thr
                      => \E k \in 1..Len(tips) : tips[k].id = n)

\* The part of C11 the code does keep: with a date column in the table the call
\* returns, the good fixtures are scored, and a fixture whose date is missing
\* or fails the date filter has no row.
C11_ReturnsWithDateColumn ==
    hasDateCol =>
        /\ tpc # "raised"
        /\ tpc = "done" =>
              /\ \A n \in 1..Len(fixtures) :
                    GoodFixture(fixtures[n]) =>
                        (ScoreRow(fixtures, n).best_ev >= thr
                            => \E k \in 1..Len(tips) : tips[k].id = n)
              /\ \A k \in 1..Len(tips) :
                    /\ fixtures[tips[k].id].date # NaT
                    /\ fixtures[tips[k].id].date > lastHistDate


(***************************************************************************)
(* Claims about the mirrored training table.                               *)
(***************************************************************************)
\* C12: the table handed to the trainer holds exactly 2n samples for a feature
\* table of n: the n originals unchanged, then for each original with features
\* (e, s, f, h) and label y one sample with features (-e, -s, -f, -h) and label
\* 1-y; and nothing is fitted before the mirroring took place.
C12_MirrorDoubles ==
    /\ cpc \in {"mirrored", "cv", "raised", "done"} =>
          /\ Len(table) = 2 * Len(feats)
          /\ \A n \in 1..Len(feats) :
                /\ table[n] = feats[n]
                /\ table[Len(feats) + n].y = 1 - feats[n].y
                /\ \A c \in 1..4 : table[Len(feats) + n].x[c] + feats[n].x[c] = 0
    /\ cpc = "feats" => (fold = 0 /\ validFolds = 0 /\ finalModel = "none")
    /\ (fold > 0 \/ finalModel # "none") => Len(table) = 2 * Len(feats)

\* A finished training on three matches with non-zero features in which a fold
\* was fitted on the mirrored table.
C12_Witness ==
    /\ cpc = "done"
    /\ Len(feats) = 3 /\ Len(table) = 6
    /\ \E n \in 1..3 : feats[n].x[1] # 0 /\ table[3 + n].x[1] = 0 - feats[n].x[1]
    /\ validFolds > 0


(***************************************************************************)
(* Claims about the feature lookup on the replayed store.                  *)
(***************************************************************************)
\* C13: a feature lookup for a fixture, made after the replay has finished,
\* only reads the store: the mapping of player states is the same after the
\* lookup as before, no key added and no field of a state modified.
C13_LookupLeavesStoreUnchanged ==
    [][(impl = "tips" /\ rpc = "done" /\ rpc' = "served") => players' = players]_vars

\* The part of C13 the code does keep: the states the store held before a
\* lookup are the same after it.
C13_LookupKeepsKnownStates ==
    [][(rpc = "done" /\ rpc' = "served") =>
          \A n \in DOMAIN players : n \in DOMAIN players' /\ players'[n] = players[n]]_vars


(***************************************************************************)
(* Claims about expected_score.                                            *)
(***************************************************************************)
\* C14: for every rating r, expected_score(r, r) is 0.5 whatever the level of
\* r, for elo.py expected_score and for tips.py _expected.
C14_EqualRatingsExpectHalf ==
    (xpc = "returned" /\ xfn = "expected_score" /\ xargs[1] = xargs[2]) =>
        xout = <<500, 500>>

\* A call with two equal ratings away from the starting rating.
C14_Witness ==
    /\ xpc = "returned" /\ xfn = "expected_score"
    /\ xargs[1] = xargs[2] /\ xargs[1] = 198750000
    /\ xout[1] = 500

(***************************************************************************)
(* Claims about the fatigue penalty and adjustment.                        *)
(***************************************************************************)
\* The weighted match counts of a fatigue signal.
LinearPenalty(f) ==
    W_M7 * f.matches_7d
    + W_M14 * (IF f.matches_14d > f.matches_7d THEN f.matches_14d - f.matches_7d ELSE 0)
    + W_M30 * (IF f.matches_30d > f.matches_14d THEN f.matches_30d - f.matches_14d ELSE 0)

\* v brought into [min_p, max_p]
InBand(v) == IF v < MIN_P THEN MIN_P ELSE IF v > MAX_P THEN MAX_P ELSE v

\* C15: the adjustment subtracts from each probability the penalty of its own
\* player, clamps each side into [min_p, max_p] and renormalises: for every
\* pair of probabilities and every fatigue signal the two returned
\* probabilities are c1/(c1+c2) and c2/(c1+c2) and sum to 1.
C15_AdjustedProbsSumToOne ==
    (xpc = "returned" /\ xfn = "adjust_probs_for_fixtures_row") =>
        LET c1 == InBand(xargs.p1_prob - _penalty(xargs.f1))
            c2 == InBand(xargs.p2_prob - _penalty(xargs.f2))
        IN  /\ xout[1] = Frac(c1, c1 + c2)
            /\ xout[2] = Frac(c2, c1 + c2)
            /\ xout[1][1] * xout[2][2] + xout[2][1] * xout[1][2] = xout[1][2] * xout[2][2]

\* A call in which one side went below min_p and the clamped sides did not
\* sum to 1.
C15_Witness ==
    /\ xpc = "returned" /\ xfn = "adjust_probs_for_fixtures_row"
    /\ xargs.p1_prob - _penalty(xargs.f1) < MIN_P
    /\ xargs.p2_prob - _penalty(xargs.f2) > MIN_P
    /\ xargs.p2_prob - _penalty(xargs.f2) < MAX_P
    /\ xargs.f2 # Rested
    /\ xout[1] # Frac(MIN_P, 1000)

\* C16: the penalty of a player is w_m7*m7 + w_m14*max(0, m14-m7)
\* + w_m30*max(0, m30-m14), plus the back-to-back penalty when the last match
\* was at most 1 day before the reference date, plus the short-rest penalty
\* only when it was at most 2 days before and the player is not back-to-back;
\* the two flat penalties are never both applied.
C16_PenaltyFormula ==
    /\ (xpc = "returned" /\ xfn = "_player_fatigue") =>
          LET ds == xargs.dates
              within(k) == Cardinality({n \in 1..Len(ds) : xargs.ref_date - ds[n] <= k})
              since == xargs.ref_date - (CHOOSE d \in Range(ds) : \A e \in Range(ds) : e <= d)
              backToBack == ds # <<>> /\ since <= 1
              shortRest == ds # <<>> /\ since <= 2 /\ ~backToBack
              m7 == within(7)
              m14 == within(14)
              m30 == within(30)
          IN  /\ xout.pen = W_M7 * m7 + W_M14 * Max(0, m14 - m7) + W_M30 * Max(0, m30 - m14)
                             + (IF backToBack THEN B2B ELSE 0)
                             + (IF shortRest THEN W_48H ELSE 0)
              /\ xout.pen - LinearPenalty(xout.f) \in {0, B2B, W_48H}
    /\ (xpc = "returned" /\ xfn = "adjust_probs_for_fixtures_row") =>
          \A f \in {xargs.f1, xargs.f2} :
              _penalty(f) - LinearPenalty(f) =
                  IF f.b2b # 0 THEN B2B ELSE IF f.rest_48h # 0 THEN W_48H ELSE 0

\* A player whose last match was the day before (both flags set, one flat
\* penalty applied) and who has a match in the 14-day window outside the 7-day one.
C16_Witness ==
    /\ xpc = "returned" /\ xfn = "_player_fatigue"
    /\ xout.f.b2b = 1 /\ xout.f.rest_48h = 1
    /\ xout.f.days_since_last = 1
    /\ xout.f.matches_14d > xout.f.matches_7d
    /\ xout.pen = W_M7 + W_M14 + B2B


(***************************************************************************)
(* Claims about the feature vector.                                        *)
(***************************************************************************)
\* The component-wise negation of a feature vector.
Negated(x) == <<0 - x[1], 0 - x[2], <<0 - x[3][1], x[3][2]>>, <<0 - x[4][1], x[4][2]>>>>

\* C17: for any replayed store, any two players a, b and any surface, the
\* features of (a, b) are the component-wise negation of the features of
\* (b, a), and the two rating components are the value of player1 minus the
\* value of player2.
C17_FeaturesAntisymmetric ==
    rpc = "served" =>
        LET a == IF impl = "tips" THEN _norm_name(lastFeat.p1) ELSE lastFeat.p1
            b == IF impl = "tips" THEN _norm_name(lastFeat.p2) ELSE lastFeat.p2
        IN  /\ Features(impl, players, lastFeat.p2, lastFeat.p1, lastFeat.surface)[2]
                  = Negated(lastFeat.x)
            /\ lastFeat.x[1] = players[a].elo_all - players[b].elo_all
            /\ Features(impl, players, lastFeat.p1, lastFeat.p1, lastFeat.surface)[2]
                  = ZeroFeatures

\* A lookup for two players with a common history that gave four non-zero
\* components.
C17_Witness ==
    /\ rpc = "served"
    /\ lastFeat.p1 \in lastFeat.known /\ lastFeat.p2 \in lastFeat.known
    /\ lastFeat.x[1] # 0 /\ lastFeat.x[2] # 0
    /\ lastFeat.x[3][1] # 0 /\ lastFeat.x[4][1] # 0


\* The mean of the results a lookup of implementation im reads for a player
\* whose window rr is not empty.
WindowMean(im, rr) == IF im = "tips" THEN Mean(rr) ELSE Mean(LastSlice(rr, formWindow))

\* C18: a player whose recent-results window is empty contributes a form of
\* 0.5: against a player whose window has mean m, form_diff is 0.5 - m, or
\* m - 0.5 in the other order, in the lookup used at training time and in the
\* one used at prediction time.
C18_EmptyWindowFormIsHalf ==
    rpc = "served" =>
        LET a == IF impl = "tips" THEN _norm_name(lastFeat.p1) ELSE lastFeat.p1
            b == IF impl = "tips" THEN _norm_name(lastFeat.p2) ELSE lastFeat.p2
            ra == players[a].recent_results
            rb == players[b].recent_results
        IN  /\ (ra = <<>> /\ rb # <<>>) =>
                  lastFeat.x[3] = FracSub(<<1, 2>>, WindowMean(impl, rb))
            /\ (ra # <<>> /\ rb = <<>>) =>
                  lastFeat.x[3] = FracSub(WindowMean(impl, ra), <<1, 2>>)

\* The part of C18 the code does keep: the lookup of features/utils.py, the one
\* the training features are built with, uses 0.5 for an empty window.
C18_EmptyWindowFormIsHalfInTraining ==
    (rpc = "served" /\ impl = "utils") =>
        LET ra == players[lastFeat.p1].recent_results
            rb == players[lastFeat.p2].recent_results
        IN  /\ (ra = <<>> /\ rb # <<>>) =>
                  lastFeat.x[3] = FracSub(<<1, 2>>, WindowMean(impl, rb))
            /\ (ra # <<>> /\ rb = <<>>) =>
                  lastFeat.x[3] = FracSub(WindowMean(impl, ra), <<1, 2>>)

\* ---------------------------------------------------------------------------
\* The form window during the replay.

\* The results (1 won, 0 lost) of player p in the first k replayed matches, in
\* the order the replay applied them.
RECURSIVE ResultsOf(_, _)
ResultsOf(p, k) ==
    IF k = 0 THEN <<>>
    ELSE LET r == hist[order[k]]
         IN  IF p \in {r.player1, r.player2}
             THEN Append(ResultsOf(p, k - 1), IF r.winner = p THEN 1 ELSE 0)
             ELSE ResultsOf(p, k - 1)

\* The last n entries of s, none when n = 0.
NewestOf(s, n) == SubSeq(s, Max(1, Len(s) - n + 1), Len(s))

\* C19.  After every replayed match and for every configured window length
\* form_window >= 0, each player's recent_results holds at most form_window
\* entries, and they are that player's most recent results in chronological
\* order; the oldest entry goes first when the cap is exceeded.
C19_WindowHoldsNewestResults ==
    (rpc = "loop" /\ ri > 0) =>
        \A p \in DOMAIN players :
            /\ Len(players[p].recent_results) <= formWindow
            /\ players[p].recent_results = NewestOf(ResultsOf(p, ri), formWindow)

\* The part of C19 the code does keep: the replay of tips.py with a window of at
\* least one entry caps the list and keeps the newest results; and in either
\* replay the list is always the newest results of some length, in order.
C19_TipsPositiveWindowHoldsNewest ==
    (rpc = "loop" /\ ri > 0) =>
        \A p \in DOMAIN players :
            LET rr == players[p].recent_results
            IN  /\ rr = NewestOf(ResultsOf(p, ri), Len(rr))
                /\ (impl = "tips" /\ formWindow > 0) =>
                       rr = NewestOf(ResultsOf(p, ri), formWindow)

\* ---------------------------------------------------------------------------
\* The head-to-head record.

\* The entry <<wins, losses, score>> of player a against b after the first k
\* replayed matches, by the stated rule: on each meeting the score is
\* old * decay + 1 when a won and old * decay - 1 when a lost.
RECURSIVE DecayedRecord(_, _, _)
DecayedRecord(a, b, k) ==
    IF k = 0 THEN <<0, 0, 0>>
    ELSE LET r == hist[order[k]]
             e == DecayedRecord(a, b, k - 1)
         IN  IF {r.player1, r.player2} # {a, b} THEN e
             ELSE IF r.winner = a
                  THEN <<e[1] + 1, e[2], (e[3] * DecayNum) \div DecayDen + H2HUnit>>
                  ELSE <<e[1], e[2] + 1, (e[3] * DecayNum) \div DecayDen - H2HUnit>>

\* Every stored head-to-head entry follows the stated rule.
RecordsFollowRule ==
    (rpc = "loop" /\ ri > 0) =>
        \A a \in DOMAIN players : \A b \in DOMAIN players[a].h2h :
            players[a].h2h[b] = DecayedRecord(a, b, ri)

\* The served h2h feature is the difference of the two decayed scores.
FeatureIsScoreDifference ==
    rpc = "served" =>
        LET a == IF impl = "tips" THEN _norm_name(lastFeat.p1) ELSE lastFeat.p1
            b == IF impl = "tips" THEN _norm_name(lastFeat.p2) ELSE lastFeat.p2
        IN  lastFeat.x[4] = Frac(DecayedRecord(a, b, ri)[3] - DecayedRecord(b, a, ri)[3],
                                 H2HUnit)

\* C20.  On every meeting between players a and b, a's head-to-head entry for b
\* becomes old_score * decay + 1 if a won and old_score * decay - 1 if a lost,
\* with wins or losses incremented accordingly, and the h2h feature is the
\* difference of these decayed scores; in the replay used at prediction time
\* and in the replay that builds training features.
C20_H2HDecayedSignedScore == RecordsFollowRule /\ FeatureIsScoreDifference

\* The part of C20 the code does keep: the replay and lookup of tips.py.
C20_H2HDecayedSignedScoreAtPrediction ==
    impl = "tips" => (RecordsFollowRule /\ FeatureIsScoreDifference)

\* ---------------------------------------------------------------------------
\* The K-factors of the rating updates.

\* The row the next iteration of the replay loop applies.
NextRow == hist[order[ri + 1]]

\* The surface key a row's surface is stored under.
SurfaceKeyOf(surface) ==
    IF impl = "tips" THEN (IF surface \in SURFACES THEN surface ELSE "Hard") ELSE surface

\* Ratings before the update; a player not yet in the store starts at elo.start.
GlobalBefore(p) == IF p \in DOMAIN players THEN players[p].elo_all ELSE EloStart

SurfaceBefore(p, surf) ==
    IF p \in DOMAIN players THEN Get(players[p].elo_surface, surf, EloStart) ELSE EloStart

ExpectedOf(ra, rb) == IF impl = "tips" THEN _expected(ra, rb) ELSE expected_score(ra, rb)

\* The rating r of a player after a match with result score (1 or 0), expected
\* score e (per mille) and K-factor k.
Updated(r, k, score, e) == r + k * (1000 * score - e)

\* The global ratings of both players move with K = k.
GlobalUpdateUses(k) ==
    LET p1 == KeyOf(NextRow.player1)
        p2 == KeyOf(NextRow.player2)
        s1 == IF KeyOf(NextRow.winner) = p1 THEN 1 ELSE 0
        e1 == ExpectedOf(GlobalBefore(p1), GlobalBefore(p2))
    IN  /\ players'[p1].elo_all = Updated(GlobalBefore(p1), k, s1, e1)
        /\ players'[p2].elo_all = Updated(GlobalBefore(p2), k, 1 - s1, 1000 - e1)

\* The ratings of both players on the surface of the match move with K = k.
SurfaceUpdateUses(k) ==
    LET p1 == KeyOf(NextRow.player1)
        p2 == KeyOf(NextRow.player2)
        surf == SurfaceKeyOf(NextRow.surface)
        s1 == IF KeyOf(NextRow.winner) = p1 THEN 1 ELSE 0
        e1 == ExpectedOf(SurfaceBefore(p1, surf), SurfaceBefore(p2, surf))
    IN  /\ players'[p1].elo_surface[surf] = Updated(SurfaceBefore(p1, surf), k, s1, e1)
        /\ players'[p2].elo_surface[surf] =
              Updated(SurfaceBefore(p2, surf), k, 1 - s1, 1000 - e1)

\* A step of the replay loop.
IsReplayStep == rpc = "loop" /\ ri' = ri + 1

\* C21.  In every replayed match the global rating update uses K = k_base and
\* the surface rating update uses K = k_base * surface_k_boost, each against
\* its own expected score; K depends neither on the level of the match nor on
\* the number of matches a player has played.
C21_GlobalKBaseSurfaceKBoosted ==
    [][IsReplayStep =>
          /\ GlobalUpdateUses(KBase)
          /\ SurfaceUpdateUses((KBase * SurfaceKBoost) \div 100)]_vars

\* The part of C21 the code does keep: in the replay of tips.py the surface
\* rating moves with K = k_base * surface_k_boost against the surface ratings,
\* and the global rating moves against the global ratings with one K for
\* every match.
C21_TipsSurfaceKBoosted ==
    [][(IsReplayStep /\ impl = "tips") =>
          /\ SurfaceUpdateUses((KBase * SurfaceKBoost) \div 100)
          /\ GlobalUpdateUses((KBase * SurfaceKBoost) \div 100)]_vars

\* ---------------------------------------------------------------------------
\* Player identity.

\* A name with surrounding whitespace removed and letters in lower case.
Canonical(name) ==
    CASE name \in {"A", " A", "a"} -> "a"
      [] name \in {"B", "B ", "b"} -> "b"
      [] name \in {"Y", "y"} -> "y"
      [] name \in {"Z", "z"} -> "z"
      [] OTHER -> name

\* C22.  Player identity is case- and whitespace-normalised: two names that
\* differ only in letter case or in surrounding whitespace refer to the same
\* PlayerState during replay and during feature lookup, so the store never
\* holds two states for such names.
C22_OneStatePerCanonicalName ==
    \A a, b \in DOMAIN players : Canonical(a) = Canonical(b) => a = b

\* The part of C22 the code does keep: the store of tips.py is keyed by the
\* name without surrounding whitespace, so there names that differ only in
\* surrounding whitespace share one state.
C22_TipsKeysAreStripped ==
    impl = "tips" => \A a \in DOMAIN players : a \notin {" A", "B "}

\* ---------------------------------------------------------------------------
\* Unknown surfaces.

\* Every state of the store keeps ratings for known surfaces only.
SurfaceKeysKnown(store) == \A p \in DOMAIN store : DOMAIN store[p].elo_surface \subseteq SURFACES

\* The Hard rating of player p in a store.
HardOf(store, p) == IF p \in DOMAIN store THEN Get(store[p].elo_surface, "Hard", EloStart)
                    ELSE EloStart

\* The match of this step moves the Hard ratings: up for the winner, down for
\* the loser.
HardRatingsMove ==
    LET p1 == KeyOf(NextRow.player1)
        p2 == KeyOf(NextRow.player2)
        up == IF KeyOf(NextRow.winner) = p1 THEN p1 ELSE p2
        down == IF up = p1 THEN p2 ELSE p1
    IN  /\ HardOf(players', up) > HardOf(players, up)
        /\ HardOf(players', down) < HardOf(players, down)

\* A step that serves a feature lookup.
IsLookupStep == rpc = "done" /\ rpc' = "served"

\* The surface feature the lookup served is the difference of the Hard ratings.
LookupReadsHard ==
    lastFeat'.x[2] = HardOf(players', KeyOf(lastFeat'.p1)) - HardOf(players', KeyOf(lastFeat'.p2))

UnknownSurfaceIsHard ==
    /\ IsReplayStep =>
          /\ NextRow.surface \notin SURFACES => HardRatingsMove
          /\ SurfaceKeysKnown(players')
    /\ IsLookupStep =>
          /\ lastFeat'.surface \notin SURFACES => LookupReadsHard
          /\ SurfaceKeysKnown(players')

\* C23.  A surface string outside {Hard, Clay, Grass, Carpet} is treated as
\* Hard in replay and in feature lookup: a match on an unknown surface updates
\* the players' Hard ratings, the surface keys of every PlayerState stay
\* within the four known surfaces, and a fixture on an unknown surface reads
\* the Hard ratings.
C23_UnknownSurfaceIsHard == [][UnknownSurfaceIsHard]_vars

\* The part of C23 the code does keep: the replay and the lookup of tips.py.
C23_UnknownSurfaceIsHardInTips == [][impl = "tips" => UnknownSurfaceIsHard]_vars

\* ---------------------------------------------------------------------------
\* The folds that count and the metrics returned.

\* Both classes are among the labels of the rows idx.
BothClasses(idx) == Classes(table, idx) = {0, 1}

\* Fold i of the split has both classes in its training and validation labels.
TwoClassFold(i) ==
    LET f == TimeSeriesSplit(Len(table), nSplits)[i]
    IN  BothClasses(f.tr) /\ BothClasses(f.va)

\* The two-class folds among the first k, in order.
TwoClassFolds(k) == SelectSeq([i \in 1..k |-> i], TwoClassFold)

\* The splitter accepted the table and the loop over the folds has begun.
FoldsVisited == cpc \in {"cv", "raised", "done"} /\ fold > 0

FoldsAndMetrics ==
    /\ FoldsVisited =>
          /\ curFold.fitted <=> TwoClassFold(fold)
          /\ validFolds = Len(TwoClassFolds(fold))
          /\ aucs = TwoClassFolds(fold)
    /\ cpc = "done" =>
          /\ cvOut.n_valid_folds = Len(TwoClassFolds(nSplits))
          /\ cvOut.cv_auc = (IF TwoClassFolds(nSplits) = <<>> THEN <<"nan">>
                             ELSE <<"mean", TwoClassFolds(nSplits)>>)
          /\ cvOut.cv_logloss = cvOut.cv_auc
          /\ finalModel # "none"
    /\ (FoldsVisited /\ TwoClassFolds(nSplits) = <<>>) => cpc # "raised"

\* C24.  In both temporal-CV trainers a fold is counted as valid exactly when
\* its training labels and its validation labels each contain both classes;
\* n_valid_folds is the number of such folds, cv_auc and cv_logloss are the
\* means over the valid folds only, and when no fold is valid both metrics are
\* NaN and training still returns a model.
C24_ValidFoldsAndMetrics == FoldsAndMetrics

\* The part of C24 the code does keep: the boosted-tree trainer.
C24_ValidFoldsAndMetricsHGB == mtype = "hgb" => FoldsAndMetrics

\* ---------------------------------------------------------------------------
\* The final model.

RawModels == {"LogisticRegression", "HistGradientBoostingClassifier"}

CalibratedModels == {"CalibratedClassifierCV", "CalibratedHGB"}

\* The rows whose labels are available for calibration: all of them for the
\* logistic model, the trailing window (at most TailCap rows) for the
\* boosted-tree model.
CalibrationRows ==
    IF mtype = "logreg" THEN 1..Len(table)
    ELSE (Len(table) - Min(Len(table), TailCap) + 1)..Len(table)

FinalModelCalibrated ==
    cpc = "done" =>
        /\ finalModel \in RawModels => ~BothClasses(CalibrationRows)
        /\ BothClasses(1..Len(table)) => finalModel \in CalibratedModels

\* C25.  The final model is fit on the complete dataset and falls back to the
\* raw uncalibrated classifier only when the labels available for calibration
\* (the full set for the logistic model, the trailing window for the
\* boosted-tree model) hold a single class; whenever the training labels hold
\* both classes the final model returned is the calibrated one, for any
\* dataset size.
C25_FinalModelCalibrated == FinalModelCalibrated

\* The part of C25 the code does keep: the logistic trainer.
C25_FinalModelCalibratedLogreg == mtype = "logreg" => FinalModelCalibrated

\* ---------------------------------------------------------------------------
\* The two replays side by side.

\* The store implementation im holds after the first k replayed matches.
StoreOf(im, k) == ReplayRows(im, <<>>, hist, SubSeq(order, 1, k))

\* What the two replays are compared on after a match.
Ratings(store) ==
    [p \in DOMAIN store |->
        [elo_all |-> store[p].elo_all,
         elo_surface |-> [sf \in SURFACES |-> Get(store[p].elo_surface, sf, EloStart)],
         matches_played |-> store[p].matches_played]]

Played(store) == [p \in DOMAIN store |-> store[p].matches_played]

\* C26.  For the same history and configuration the replay that builds the
\* training features (features/utils.py) and the replay that builds the
\* prediction-time state (tips.py) yield the same player state after every
\* match, so the four features of any pairing and surface are the same under
\* both implementations.
C26_ReplaysAgree ==
    /\ (rpc = "loop" /\ ri > 0) =>
          Ratings(StoreOf("tips", ri)) = Ratings(StoreOf("utils", ri))
    /\ rpc = "served" =>
          Features("tips", StoreOf("tips", ri), lastFeat.p1, lastFeat.p2, lastFeat.surface)[2]
            = Features("utils", StoreOf("utils", ri), lastFeat.p1, lastFeat.p2,
                       lastFeat.surface)[2]

\* The part of C26 the code does keep: after every match both replays hold the
\* same players with the same number of matches played.
C26_ReplaysAgreeOnMatchesPlayed ==
    (rpc = "loop" /\ ri > 0) =>
        Played(StoreOf("tips", ri)) = Played(StoreOf("utils", ri))

\* ---------------------------------------------------------------------------
\* Conservation of rating points in build_player_states.

\* The sum of the global ratings (sf = "all") or of the ratings on surface sf
\* over the players names of the store.
RECURSIVE SumRatings(_, _, _)
SumRatings(store, names, sf) ==
    IF names = {} THEN 0
    ELSE LET p == CHOOSE q \in names : TRUE
             r == IF sf = "all" THEN store[p].elo_all ELSE store[p].elo_surface[sf]
         IN  r + SumRatings(store, names \ {p}, sf)

\* The store of a tips.py replay, during the loop and after it.
TipsStore == impl = "tips" /\ rpc \in {"loop", "done", "served"}

\* C27.  Rating updates in build_player_states are zero-sum: in every match
\* the loser's global (and surface) rating goes down by exactly what the
\* winner's goes up, so after any replay the global ratings of the players in
\* the store sum to (number of players) * elo_start, and so do the ratings on
\* each surface.
C27_RatingsZeroSum ==
    TipsStore =>
        \A sf \in SURFACES \cup {"all"} :
            SumRatings(players, DOMAIN players, sf) = Cardinality(DOMAIN players) * EloStart

\* A replay of three matches after which the two players are apart on the
\* global rating and on Clay.
C27_Witness ==
    /\ TipsStore /\ ri = 3
    /\ players["A"].elo_all # players["B"].elo_all
    /\ players["A"].elo_surface["Clay"] # EloStart
    /\ players["A"].elo_surface["Hard"] # EloStart

\* ---------------------------------------------------------------------------
\* Head-to-head records in build_player_states.

\* The meetings (wins + losses) recorded in the entries opps of a h2h map.
RECURSIVE SumMeetings(_, _)
SumMeetings(h2h, opps) ==
    IF opps = {} THEN 0
    ELSE LET o == CHOOSE q \in opps : TRUE
         IN  h2h[o][1] + h2h[o][2] + SumMeetings(h2h, opps \ {o})

\* C28.  After any replay by build_player_states the head-to-head records are
\* mirror images: for distinct players a, b, a's entry for b is (w, l, s)
\* exactly when b's entry for a is (l, w, -s); and each player's
\* matches_played is the sum of wins + losses over that player's entries.
C28_H2HMirrored ==
    TipsStore =>
        /\ \A a, b \in DOMAIN players :
              a # b =>
                 /\ (b \in DOMAIN players[a].h2h) <=> (a \in DOMAIN players[b].h2h)
                 /\ b \in DOMAIN players[a].h2h =>
                       LET e == players[a].h2h[b]
                       IN  players[b].h2h[a] = <<e[2], e[1], 0 - e[3]>>
        /\ \A a \in DOMAIN players :
              players[a].matches_played = SumMeetings(players[a].h2h, DOMAIN players[a].h2h)

\* A replay of three matches in which B met two opponents and a score has
\* decayed.
C28_Witness ==
    /\ TipsStore /\ ri = 3
    /\ DOMAIN players["B"].h2h = {"A", "a"}
    /\ players["B"].matches_played = 3
    /\ \E o \in {"A", "a"} : players["B"].h2h[o][3] \notin {H2HUnit, 0 - H2HUnit}

\* ---------------------------------------------------------------------------
\* The dates of the fixtures that are scored.

\* The fixture of an output row is dated after the history and not before today.
DatedAhead(r) ==
    LET dt == fixtures[r.id].date
    IN  dt # NaT /\ dt > lastHistDate /\ dt >= Today

\* C29.  When the fixtures carry a date column, every tip generate_tips emits
\* is for a fixture dated strictly after the latest match date of the history
\* and not before the current UTC date; a fixture dated on or before the last
\* replayed match is never scored.
C29_TipsDatedAfterHistory ==
    hasDateCol =>
        /\ \A n \in 1..Len(rows) : DatedAhead(rows[n])
        /\ \A n \in 1..Len(tips) : DatedAhead(tips[n])

\* A run that emitted a tip for a fixture of today and left out one fixture of
\* the day of the last match and one without a date.
C29_Witness ==
    /\ tpc = "done" /\ hasDateCol
    /\ \E n \in 1..Len(tips) : fixtures[tips[n].id].date = Today
    /\ \E n \in 1..Len(fixtures) : fixtures[n].date = lastHistDate
    /\ \E n \in 1..Len(fixtures) : fixtures[n].date = NaT

\* ---------------------------------------------------------------------------
\* The band after renormalisation.

\* The fraction q lies in [min_p, max_p] (the band is in per mille).
FracInBand(q) == q[2] > 0 /\ MIN_P * q[2] <= 1000 * q[1] /\ 1000 * q[1] <= MAX_P * q[2]

\* C30.  With the default band (min_p = 0.05, max_p = 0.95) the probabilities
\* adjust_probs_for_fixtures_row returns are inside [min_p, max_p] after the
\* renormalisation, for every pair of inputs and every pair of penalties.
C30_AdjustedProbsStayInBand ==
    (xpc = "returned" /\ xfn = "adjust_probs_for_fixtures_row") =>
        FracInBand(xout[1]) /\ FracInBand(xout[2])

\* A call whose first side was clamped up to min_p and whose second side was
\* clamped down to max_p, so that the result lies on the edges of the band;
\* and the inputs did not sum to 1.
C30_Witness ==
    /\ xpc = "returned" /\ xfn = "adjust_probs_for_fixtures_row"
    /\ xargs.p1_prob - _penalty(xargs.f1) < MIN_P
    /\ xargs.p2_prob - _penalty(xargs.f2) > MAX_P
    /\ xargs.p1_prob + xargs.p2_prob # 1000
    /\ xout = <<Frac(MIN_P, 1000), Frac(MAX_P, 1000)>>

====
